---------------------------- MODULE Spec2Model ----------------------------
(***************************************************************************)
(* A model of the biolife simulation engine: genome.ts, creature.ts,       *)
(* physics.ts, collision.ts and simulation.ts.                             *)
(*                                                                         *)
(* JavaScript numbers are IEEE doubles; the model keeps them in fixed      *)
(* point.  Lengths, positions, velocities and node sizes are integers in   *)
(* units of 1/LS; efficiencies, rates and the values returned by            *)
(* Math.random() are integers in units of 1/ES; energies are integers in   *)
(* units of 1/EU.  A product or quotient is rounded towards zero to the    *)
(* unit of its result.                                                     *)
(***************************************************************************)
EXTENDS Integers, Sequences, FiniteSets, TLC

\* ------------------------------------------------------------------ bounds
\* number of ticks a run of the model takes
MaxTick == 1
\* number of calls of spawnRandomCreature a run of the model takes
MaxSpawn == 2
\* number of calls of spawnFood made from outside step
MaxFood == 1

\* ------------------------------------------------------------- fixed point
\* unit of lengths: 1.0 is LS
LS == 100
\* unit of efficiencies, probabilities and other fractions: 1.0 is ES
ES == 1000
\* unit of energies: 1.0 is EU
EU == 10000

Min(a, b) == IF a <= b THEN a ELSE b

Max(a, b) == IF a >= b THEN a ELSE b

\* a / b rounded towards zero (b > 0)
Div(a, b) == IF a >= 0 THEN a \div b ELSE -((-a) \div b)

\* the JavaScript remainder a % b for b > 0: it has the sign of a
JsMod(a, b) == IF a >= 0 THEN a % b ELSE -((-a) % b)

\* Math.floor(r * n) for a draw r of Math.random() and an integer n
FloorRand(r, n) == (r * n) \div ES

RECURSIVE SqrtIter(_, _, _)
SqrtIter(n, lo, hi) ==
  IF lo >= hi THEN lo
  ELSE LET mid == (lo + hi + 1) \div 2
       IN  IF mid * mid <= n THEN SqrtIter(n, mid, hi) ELSE SqrtIter(n, lo, mid - 1)

\* Math.sqrt on a non-negative integer, rounded down
Sqrt(n) == SqrtIter(n, 0, 46340)

\* Math.sqrt(dx*dx + dy*dy) for dx, dy in length units
Hypot(dx, dy) == Sqrt(dx * dx + dy * dy)

\* d / Math.sqrt(dx*dx + dy*dy) in units of 1/ES, 0 for the zero vector: the
\* component d of the unit vector along (dx, dy).  The root is taken on a
\* scale fine enough for the shortest vectors to keep the length 1.
unitAlong(d, dx, dy) ==
  LET n2 == dx * dx + dy * dy
      scale == IF n2 <= 2000 THEN 1000
               ELSE IF n2 <= 200000 THEN 100
               ELSE IF n2 <= 20000000 THEN 10
               ELSE 1
  IN  IF n2 = 0 THEN 0 ELSE Div(d * ES * scale, Sqrt(n2 * scale * scale))

\* Math.sin of an angle in 1/100 radian, in units of 1/ES
\* (Bhaskara's rational approximation on each half period)
SinHalf(t) == (16 * t * (314 - t) * ES) \div (5 * 314 * 314 - 4 * t * (314 - t))

Sin(a) == LET t == a % 628 IN IF t <= 314 THEN SinHalf(t) ELSE -SinHalf(t - 314)

Cos(a) == Sin(a + 157)

\* ------------------------------------------------------------------- types
SegmentType == {"neutral", "sucker", "solar", "mating"}

\* Object.values(SegmentType), in declaration order
SegmentTypeValues == <<"neutral", "sucker", "solar", "mating">>

NodeGene(type, size, efficiency, links) ==
  [type |-> type, size |-> size, efficiency |-> efficiency, links |-> links]

\* ------------------------------------------------------------------ genome
\* A genome text is modelled as the sequence of its records, the texts
\* between `(' and the next `)', and a record as the sequence of its parts,
\* the trimmed texts between the commas.  A part is a numeral (num), whose
\* value v is in units of 1/1000 and which may carry an explicit `+', or any
\* other text.  The record without parts stands for `()'.
Part(num, text, v, plus) == [num |-> num, text |-> text, v |-> v, plus |-> plus]

\* parseFloat(parts[i - 1]) in units of 1/1000; NaN, also for a missing part,
\* is the absent value
parseFloat(parts, i) ==
  IF i <= Len(parts) /\ parts[i].num THEN [some |-> TRUE, v |-> parts[i].v]
  ELSE [some |-> FALSE, v |-> 0]

\* parseInt(part): the integer part of a numeral, NaN for any other text
parseInt(part) ==
  IF part.num THEN [some |-> TRUE, v |-> Div(part.v, 1000)] ELSE [some |-> FALSE, v |-> 0]

\* the body of the loop of parseGenome (genome.ts lines 12-32) for one match;
\* the first part of a record is not a numeral in the texts of the model
parseGene(parts) ==
  LET size == parseFloat(parts, 2)
      efficiency == parseFloat(parts, 3)
      given == SelectSeq(SubSeq(parts, 4, Len(parts)), LAMBDA q : parseInt(q).some)
  IN  NodeGene(parts[1].text,
               IF size.some /\ size.v # 0 THEN Div(size.v * LS, 1000) ELSE 5 * LS,
               IF efficiency.some /\ efficiency.v # 0 THEN Div(efficiency.v * ES, 1000) ELSE ES \div 2,
               [k \in 1..Len(given) |-> parseInt(given[k]).v])

\* parseGenome(genomeStr): geneRegex matches the records that are not empty
parseGenome(genomeStr) ==
  LET matches == SelectSeq(genomeStr, LAMBDA parts : Len(parts) > 0)
  IN  [i \in 1..Len(matches) |-> parseGene(matches[i])]

\* x.toFixed(digits) for x in units of 1/1000 and digits 1 or 2: the numeral
\* with that many decimals nearest to the double that stands for x.  Where x
\* lies halfway between two numerals the double decides: it is x times 2^e
\* / 1000 rounded to an integer of 53 bits, so it lies below x iff the
\* remainder of x * 2^e by 1000 is positive and less than 500; the numeral
\* is then the smaller one, else the larger one.
toFixed(x, digits) ==
  LET q == IF digits = 1 THEN 100 ELSE 10
      a == IF x >= 0 THEN x ELSE -x
      RECURSIVE Up(_)
      Up(t) == IF t >= 1000 THEN 0 ELSE 1 + Up(2 * t)
      RECURSIVE Down(_)
      Down(t) == IF 2 * t <= a THEN 1 + Down(2 * t) ELSE 0
      e == IF a >= 1000 THEN 52 - Down(1000) ELSE 52 + Up(a)
      RECURSIVE Pow2(_)
      Pow2(k) == IF k = 0 THEN 1
                 ELSE LET h == Pow2(k \div 2)
                      IN  (h * h * (IF k % 2 = 1 THEN 2 ELSE 1)) % 1000
      rem == IF a = 0 THEN 0 ELSE ((a % 1000) * Pow2(e)) % 1000
      below == a % q = q \div 2 /\ rem > 0 /\ rem < 500
      n == IF below THEN a \div q ELSE (a + q \div 2) \div q
  IN  Part(TRUE, "", (IF x >= 0 THEN n ELSE -n) * q, FALSE)

\* serializeGenome(genome)
serializeGenome(genome) ==
  [i \in 1..Len(genome) |->
     <<Part(FALSE, genome[i].type, 0, FALSE),
       toFixed(Div(genome[i].size * 1000, LS), 1),
       toFixed(Div(genome[i].efficiency * 1000, ES), 2)>>
     \o [k \in 1..Len(genome[i].links) |->
           Part(TRUE, "", genome[i].links[k] * 1000, genome[i].links[k] >= 0)]]

\* crossover without the fallback for an empty child
crossoverNoFallback(genomeA, genomeB, rA, rB, coin) ==
  SubSeq(genomeA, 1, FloorRand(rA, Len(genomeA) + 1))
     \o SubSeq(genomeB, FloorRand(rB, Len(genomeB) + 1) + 1, Len(genomeB))

\* crossover(genomeA, genomeB); rA, rB and coin are the three draws of
\* Math.random() in call order
crossover(genomeA, genomeB, rA, rB, coin) ==
  LET cutA == FloorRand(rA, Len(genomeA) + 1)
      cutB == FloorRand(rB, Len(genomeB) + 1)
      child == SubSeq(genomeA, 1, cutA) \o SubSeq(genomeB, cutB + 1, Len(genomeB))
  IN  IF Len(child) = 0
      THEN (IF coin < ES \div 2 THEN genomeA ELSE genomeB)
      ELSE child

\* links.splice(idx, 1)
RemoveAt(s, idx) == SubSeq(s, 1, idx) \o SubSeq(s, idx + 2, Len(s))

\* The link mutation of one gene (genome.ts lines 95-115).  d holds the draws:
\* d.link gates it, d.action picks the branch, d.idx the link, d.newLink the
\* new offset, d.coin and d.coin2 the two signs.
mutateLinks(links, rate, d) ==
  IF ~(d.link < rate) THEN links
  ELSE IF d.action < 330 /\ Len(links) > 0
       THEN RemoveAt(links, FloorRand(d.idx, Len(links)))
  ELSE IF d.action < 660
       THEN LET newLink == FloorRand(d.newLink, 7) - 3
            IN  IF newLink # 0 THEN Append(links, newLink) ELSE links
  ELSE IF Len(links) > 0
       THEN LET idx == FloorRand(d.idx, Len(links)) + 1
                moved == links[idx] + (IF d.coin < ES \div 2 THEN 1 ELSE -1)
                fixed == IF moved = 0 THEN (IF d.coin2 < ES \div 2 THEN 1 ELSE -1) ELSE moved
            IN  [links EXCEPT ![idx] = fixed]
  ELSE links

\* The map callback of mutate (genome.ts lines 76-118) on one gene.
mutateGene(gene, rate, strength, d) ==
  LET type == IF d.type < rate
              THEN SegmentTypeValues[FloorRand(d.typeSel, Len(SegmentTypeValues)) + 1]
              ELSE gene.type
      \* (Math.random() - 0.5) * 2 * strength * 5, in length units
      size == IF d.size < rate
              THEN Max(LS, gene.size + Div((d.sizeAmt - ES \div 2) * 2 * strength * 5 * LS, ES * ES))
              ELSE gene.size
      efficiency == IF d.eff < rate
                    THEN Max(ES \div 10, Min(ES, gene.efficiency + Div((d.effAmt - ES \div 2) * 2 * strength, ES)))
                    ELSE gene.efficiency
  IN  NodeGene(type, size, efficiency, mutateLinks(gene.links, rate, d))

\* the filter callback of mutate: keep the gene iff Math.random() > rate * 0.1
\* On a tie of the draw with rate / 10 the product rate * 0.1 of IEEE doubles
\* decides: it lies below the draw for the draws listed.
keepGene(rate, d) ==
  \/ d.del * 10 > rate
  \/ d.del * 10 = rate /\ d.del \in {29, 35, 57, 58, 69, 70}

\* the draws made for gene i of a genome
geneDraws(draws, i) == IF i <= Len(draws.genes) THEN draws.genes[i] ELSE draws.rest

RECURSIVE mutateMapFilter(_, _, _, _, _)
mutateMapFilter(genome, rate, strength, draws, i) ==
  IF i > Len(genome) THEN <<>>
  ELSE LET rest == mutateMapFilter(genome, rate, strength, draws, i + 1)
       IN  IF keepGene(rate, geneDraws(draws, i))
           THEN <<mutateGene(genome[i], rate, strength, geneDraws(draws, i))>> \o rest
           ELSE rest

\* the argument of concat in mutate (genome.ts lines 123-125): the appended
\* gene takes its fields from one draw and its links from another draw.  On
\* a tie of the draw with rate / 5 the product rate * 0.2 of IEEE doubles
\* decides: it lies above the draw for the draws of ties (rates up to 1).
mutateDuplicate(genome, rate, draws) ==
  LET ties == {5, 7, 10, 11, 13, 14, 19, 20, 22, 23, 26, 27, 28, 38, 39, 40, 43, 44, 45,
               46, 51, 52, 53, 54, 55, 56, 75, 76, 77, 78, 79, 80, 81, 86, 87, 88, 89,
               90, 91, 92, 93, 102, 103, 104, 105, 106, 107, 108, 109, 110, 111, 112,
               150, 151, 152, 153, 154, 155, 156, 157, 158, 159, 160, 161, 162, 172, 173,
               174, 175, 176, 177, 178, 179, 180, 181, 182, 183, 184, 185, 186, 187}
  IN
  IF /\ \/ draws.dup * 10 < rate * 2
        \/ draws.dup * 10 = rate * 2 /\ draws.dup \in ties
     /\ Len(genome) > 0
  THEN LET src == genome[FloorRand(draws.dupGene, Len(genome)) + 1]
           lnk == genome[FloorRand(draws.dupLinks, Len(genome)) + 1]
       IN  <<NodeGene(src.type, src.size, src.efficiency, lnk.links)>>
  ELSE <<>>

\* mutate(genome, rate, strength); geneDraws(draws, i) are the draws made for
\* gene i, draws.dup, draws.dupGene and draws.dupLinks those of the concat
mutate(genome, rate, strength, draws) ==
  mutateMapFilter(genome, rate, strength, draws, 1) \o mutateDuplicate(genome, rate, draws)


\* ---------------------------------------------------------------- creature
\* resolveLink(currentIdx, relativeLink, genomeLength); indices count from 0
resolveLink(currentIdx, relativeLink, genomeLength) ==
  LET targetIdx == currentIdx + relativeLink
  IN  IF targetIdx < 0
      THEN JsMod(genomeLength + JsMod(targetIdx, genomeLength), genomeLength)
      ELSE IF targetIdx >= genomeLength
           THEN JsMod(targetIdx, genomeLength)
           ELSE targetIdx

Node(id, gene, x, y) == [id |-> id, gene |-> gene, x |-> x, y |-> y, vx |-> 0, vy |-> 0]

\* The node loop of createCreature (creature.ts lines 20-56) from index i on;
\* nodes holds the nodes built so far, cd.angle is the draw of Math.random()
\* in baseAngle.  Angles are in 1/100 radian.
RECURSIVE buildNodes(_, _, _, _, _, _)
buildNodes(genome, x, y, cd, i, nodes) ==
  IF i >= Len(genome) THEN nodes
  ELSE LET gene == genome[i + 1]
           first == IF Len(gene.links) > 0 THEN gene.links[1] ELSE -1
           linkedIdx == resolveLink(i, first, Len(genome))
           parent == IF linkedIdx < Len(nodes) THEN nodes[linkedIdx + 1] ELSE nodes[i]
           baseAngle == i * 80 + Div(cd.angle * 50, ES)
           dist == parent.gene.size + gene.size + 2 * LS
           node == IF i = 0
                   THEN Node(i, gene, x, y)
                   ELSE Node(i, gene, parent.x + Div(Cos(baseAngle) * dist, ES),
                                       parent.y + Div(Sin(baseAngle) * dist, ES))
       IN  buildNodes(genome, x, y, cd, i + 1, Append(nodes, node))

Link(nodeA, nodeB, restLength, stiffness, amp, freq, phase) ==
  [nodeA |-> nodeA, nodeB |-> nodeB, restLength |-> restLength, stiffness |-> stiffness,
   actuationAmp |-> amp, actuationFreq |-> freq, actuationPhase |-> phase]

\* one link as createCreature builds it (creature.ts lines 71-87); cd.act is
\* the draw of hasActuation, cd.amp, cd.freq, cd.phase those of the parameters
newLink(nodes, i, targetIdx, cd) ==
  LET nodeA == nodes[i + 1]
      nodeB == nodes[targetIdx + 1]
      hasActuation == cd.act < 200
  IN  Link(i, targetIdx, Hypot(nodeB.x - nodeA.x, nodeB.y - nodeA.y), 2 * ES,
           IF hasActuation THEN 200 + Div(cd.amp * 300, ES) ELSE 0,
           IF hasActuation THEN ES + 2 * cd.freq ELSE 0,
           IF hasActuation THEN Div(cd.phase * 628, ES) ELSE 0)

\* a key of linkSet that keeps the order of the two indices
linkKeyOrdered(i, targetIdx) == <<i, targetIdx>>

\* the key of linkSet: the unordered pair of node indices
linkKey(i, targetIdx) == <<Min(i, targetIdx), Max(i, targetIdx)>>

\* The link loops of createCreature (creature.ts lines 59-91), from gene i and
\* its k-th offset on; links holds the links built so far.
RECURSIVE buildLinks(_, _, _, _, _, _)
buildLinks(genome, nodes, cd, i, k, links) ==
  IF i >= Len(genome) THEN links
  ELSE IF k > Len(genome[i + 1].links) THEN buildLinks(genome, nodes, cd, i + 1, 1, links)
  ELSE LET targetIdx == resolveLink(i, genome[i + 1].links[k], Len(genome))
           seen == \E n \in 1..Len(links) :
                      linkKey(links[n].nodeA, links[n].nodeB) = linkKey(i, targetIdx)
       IN  IF targetIdx # i /\ ~seen
           THEN buildLinks(genome, nodes, cd, i, k + 1, Append(links, newLink(nodes, i, targetIdx, cd)))
           ELSE buildLinks(genome, nodes, cd, i, k + 1, links)

\* createCreature(id, genome, x, y, startingEnergy) for a genome of length >= 1;
\* for the empty genome it throws, see createCreatureThrows
createCreature(id, genome, x, y, startingEnergy, cd) ==
  LET nodes == buildNodes(genome, x, y, cd, 0, <<>>)
  IN  [id |-> id, nodes |-> nodes, links |-> buildLinks(genome, nodes, cd, 0, 1, <<>>),
       genome |-> genome, energy |-> startingEnergy, age |-> 0, alive |-> TRUE]

\* a throw for every genome of fewer than two genes
createCreatureThrowsShort(genome) == Len(genome) <= 1

\* the guard of the throw in createCreature (creature.ts lines 11-13)
createCreatureThrows(genome) == Len(genome) = 0

RECURSIVE SumMass(_, _)
SumMass(nodes, i) ==
  IF i > Len(nodes) THEN 0
  ELSE nodes[i].gene.size * nodes[i].gene.size + SumMass(nodes, i + 1)

\* getCreatureMass(creature): the sum of size * size, which SumMass gives
\* exactly in units of 1/(LS * LS), in length units
getCreatureMass(creature) == Div(SumMass(creature.nodes, 1), LS)

\* ---------------------------------------------------- binary64 arithmetic
\* getCreatureMass adds the squares of the sizes in binary64, rounding every
\* product and every sum to the nearest double, ties to even.  A natural
\* number is a sequence of digits to the base 16384, the least significant
\* first; a double is a mantissa m of 53 bits and the exponent e of its last
\* bit.

RECURSIVE Limbs(_)
\* the digits of the natural number k
Limbs(k) == IF k = 0 THEN <<>> ELSE <<k % 16384>> \o Limbs(k \div 16384)

RECURSIVE Trim(_)
\* s without its leading zero digits
Trim(s) == IF Len(s) > 0 /\ s[Len(s)] = 0 THEN Trim(SubSeq(s, 1, Len(s) - 1)) ELSE s

\* digit j of s, 0 beyond its ends
digitAt(s, j) == IF j \in 1..Len(s) THEN s[j] ELSE 0

\* the number of bits of s, which is not zero
BitLen(s) == 14 * (Len(s) - 1) + (CHOOSE w \in 1..14 : s[Len(s)] \div (2 ^ (w - 1)) = 1)

\* bit i of s, counted from 0
Bit(s, i) == (digitAt(s, i \div 14 + 1) \div (2 ^ (i % 14))) % 2

\* s shifted right by k bits
ShiftR(s, k) ==
  Trim([j \in 1..(Len(s) - k \div 14) |->
          digitAt(s, j + k \div 14) \div (2 ^ (k % 14))
          + (digitAt(s, j + k \div 14 + 1) % (2 ^ (k % 14))) * (2 ^ (14 - (k % 14)))])

\* s shifted left by k bits
ShiftL(s, k) ==
  Trim([j \in 1..(Len(s) + k \div 14 + 1) |->
          ((digitAt(s, j - k \div 14) * (2 ^ (k % 14))) % 16384)
          + digitAt(s, j - k \div 14 - 1) \div (2 ^ (14 - (k % 14)))])

\* one of the k lowest bits of s is set
LowNonzero(s, k) ==
  \E j \in 1..Len(s) : \/ j <= k \div 14 /\ s[j] # 0
                       \/ j = k \div 14 + 1 /\ s[j] % (2 ^ (k % 14)) # 0

RECURSIVE Inc(_)
\* s + 1
Inc(s) == IF s = <<>> THEN <<1>>
          ELSE IF s[1] < 16383 THEN <<s[1] + 1>> \o Tail(s) ELSE <<0>> \o Inc(Tail(s))

\* kept + 1 if up, kept otherwise
RoundUp(kept, up) == IF up THEN Inc(kept) ELSE kept

\* the double r * 2^e for a mantissa r of 53 or, after a carry, of 54 bits
Normal(r, e) ==
  IF BitLen(r) = 54 THEN [m |-> ShiftR(r, 1), e |-> e + 1] ELSE [m |-> r, e |-> e]

\* Round for a number s with `cut' bits more than 53
RoundCut(s, e, sticky, cut) ==
  IF cut <= 0 THEN [m |-> ShiftL(s, -cut), e |-> e + cut]
  ELSE Normal(RoundUp(ShiftR(s, cut),
                      /\ Bit(s, cut - 1) = 1
                      /\ (sticky \/ LowNonzero(s, cut - 1) \/ Bit(s, cut) = 1)),
              e + cut)

\* the double nearest to s * 2^e, plus a positive amount below the last bit
\* of s if sticky; ties go to the even mantissa
Round(s, e, sticky) == RoundCut(s, e, sticky, BitLen(s) - 53)

RECURSIVE Quot(_, _, _)
\* the quotient and the remainder of the digits 1..i of d, with r carried in
\* from above, divided by 100
Quot(d, i, r) ==
  IF i = 0 THEN [q |-> <<>>, r |-> r]
  ELSE LET low == Quot(d, i - 1, (r * 16384 + d[i]) % 100)
       IN  [q |-> low.q \o <<(r * 16384 + d[i]) \div 100>>, r |-> low.r]

\* the double nearest to the quotient qr.q with the remainder qr.r, in units
\* of 2^-70
DoubleOf(qr) == Round(Trim(qr.q), -70, qr.r # 0)

\* d / 100
Hundredth(d) == Quot(d, Len(d), 0)

\* the double nearest to k / 100, k > 0: the value of the literal or the
\* parsed text of a size with two decimals
Double(k) == DoubleOf(Hundredth(ShiftL(Limbs(k), 70)))

RECURSIVE MulColumn(_, _, _, _)
\* the sum of the digit products of p and q that fall into column c
MulColumn(p, q, c, i) ==
  IF i > Len(p) THEN 0 ELSE p[i] * digitAt(q, c + 1 - i) + MulColumn(p, q, c, i + 1)

RECURSIVE MulDigits(_, _, _, _)
\* the digits of p * q from column c on
MulDigits(p, q, c, carry) ==
  IF c > Len(p) + Len(q) THEN Limbs(carry)
  ELSE LET t == MulColumn(p, q, c, 1) + carry
       IN  <<t % 16384>> \o MulDigits(p, q, c + 1, t \div 16384)

\* the double x * y
Mul(x, y) == Round(Trim(MulDigits(x.m, y.m, 1, 0)), x.e + y.e, FALSE)

RECURSIVE AddDigits(_, _, _, _)
\* the digits of p + q from digit i on
AddDigits(p, q, i, carry) ==
  IF i > Len(p) /\ i > Len(q) THEN Limbs(carry)
  ELSE LET t == digitAt(p, i) + digitAt(q, i) + carry
       IN  <<t % 16384>> \o AddDigits(p, q, i + 1, t \div 16384)

\* x + y with both mantissas brought to the exponent e
AddAt(x, y, e) ==
  Round(Trim(AddDigits(ShiftL(x.m, x.e - e), ShiftL(y.m, y.e - e), 1, 0)), e, FALSE)

\* the double x + y
Add(x, y) == AddAt(x, y, IF x.e < y.e THEN x.e ELSE y.e)

\* d * d
SquareOf(d) == Mul(d, d)

\* node.gene.size * node.gene.size for a size of k / 100
Square(k) == CHOOSE out \in {SquareOf(d) : d \in {Double(k)}} : TRUE

\* sum + sq; a sum with an empty mantissa is 0
AddTo(sum, sq) == IF sum.m = <<>> THEN sq ELSE Add(sum, sq)

\* sum + size * size for a size of k / 100
Plus(sum, k) == IF k = 0 THEN sum ELSE AddTo(sum, Square(k))

RECURSIVE MassFrom(_, _, _)
\* the reduce of getCreatureMass from node i on
MassFrom(sizes, i, sum) ==
  IF i > Len(sizes) THEN sum
  ELSE CHOOSE out \in {MassFrom(sizes, i + 1, now) : now \in {Plus(sum, sizes[i])}} : TRUE

\* the natural number p is below q
Less(p, q) ==
  \/ Len(p) < Len(q)
  \/ Len(p) = Len(q) /\ \E i \in 1..Len(p) : p[i] < q[i] /\ \A j \in (i + 1)..Len(p) : p[j] = q[j]

\* the double `mass' is below the whole number n
belowWhole(mass, n) ==
  Less(ShiftL(mass.m, IF mass.e > 0 THEN mass.e ELSE 0),
       ShiftL(Limbs(n), IF mass.e < 0 THEN -mass.e ELSE 0))

\* The sum of size * size that getCreatureMass returns is below the whole
\* number n; sizes holds the sizes of the nodes in units of 1/100, each
\* standing for the double nearest to it.
massBelow(sizes, n) ==
  CHOOSE out \in {belowWhole(mass, n) : mass \in {MassFrom(sizes, 1, [m |-> <<>>, e |-> 0])}} : TRUE

\* Math.floor(mass / 50) of creatureToFood (simulation.ts line 234) for the
\* mass getCreatureMass returns.  The double is within 1e-10 of the exact sum,
\* which is a multiple of 1/(LS * LS), so the two quotients differ only when
\* the exact sum is a multiple of 50 and the double is below it.
massDiv50(nodes) ==
  LET mass == SumMass(nodes, 1)
      whole == mass \div (50 * LS * LS)
  IN  IF /\ whole > 0
         /\ mass % (50 * LS * LS) = 0
         /\ massBelow([i \in 1..Len(nodes) |-> Max(nodes[i].gene.size, -nodes[i].gene.size)],
                      50 * whole)
      THEN whole - 1 ELSE whole

RECURSIVE SumMoment(_, _, _)
SumMoment(nodes, axis, i) ==
  IF i > Len(nodes) THEN 0
  ELSE (IF axis = "x" THEN nodes[i].x ELSE nodes[i].y) * Div(nodes[i].gene.size * nodes[i].gene.size, LS)
       + SumMoment(nodes, axis, i + 1)

\* getCreatureCenter(creature): the mass-weighted mean position
getCreatureCenter(creature) ==
  IF Len(creature.nodes) = 0 THEN [x |-> 0, y |-> 0]
  ELSE [x |-> Div(SumMoment(creature.nodes, "x", 1), getCreatureMass(creature)),
        y |-> Div(SumMoment(creature.nodes, "y", 1), getCreatureMass(creature))]

\* getEnergyEfficiency(creature) with maxEnergy = 100, in units of 1/ES
getEnergyEfficiency(creature) ==
  LET ratio == Div(creature.energy, (100 * EU) \div ES)
  IN  IF ratio <= 0 THEN 0
      ELSE IF ratio >= ES \div 2 THEN ES
      ELSE ratio * 2


\* ----------------------------------------------------------------- physics
\* the substitute `|| 0.001' of a zero distance: the smallest positive length
Epsilon == 1

\* size * size of a node, in length units
massOf(node) == Div(node.gene.size * node.gene.size, LS)

\* applyNodeDrag(node, viscosity)
applyNodeDrag(node, viscosity) ==
  LET dragCoeff == Div(viscosity * node.gene.size, 10 * LS)
  IN  [node EXCEPT !.vx = Div(node.vx * ES, ES + dragCoeff),
                   !.vy = Div(node.vy * ES, ES + dragCoeff)]

\* `Math.sqrt(dx * dx + dy * dy) || 0.001': a zero distance is replaced
OrEpsilon(h) == IF h = 0 THEN Epsilon ELSE h

\* writes the two nodes of r at the places ia and ib of the node list
setPair(nodes, ia, ib, r) == [nodes EXCEPT ![ia] = r.a, ![ib] = r.b]

\* transDragFx, transDragFy of applyLinkDrag (physics.ts lines 43-44) on one
\* axis: l and p are the components of the link direction and of its normal
transDrag(l, p, vParallel, vPerp, perpDragCoeff, parallelDragCoeff) ==
  -(Div(Div(p * vPerp, ES) * perpDragCoeff, LS) + Div(Div(l * vParallel, ES) * parallelDragCoeff, LS))

\* a * b / c for b >= 0 and c > 0, computed without forming a * b
MulDiv(a, b, c) == a * (b \div c) + Div(a * (b % c), c)

\* rotForceMag of applyLinkDrag (physics.ts lines 54-64)
rotForce(vPerpA, vPerpB, length, viscosity) ==
  LET omega == Div((vPerpB - vPerpA) * ES, length)
      length3 == MulDiv(Div(length * length, LS), length, LS)
      rotDragTorque == -Div(MulDiv(viscosity, length3, ES) * omega, 12 * ES)
  IN  Div(rotDragTorque * 2 * LS, length)

\* the velocity updates of applyLinkDrag (physics.ts lines 65-84): the
\* translational force (fx, fy) split in two, the rotational force (rx, ry)
\* opposite on the two nodes
dragNodes(nodeA, nodeB, fx, fy, rx, ry, massA, massB) ==
  [a |-> [nodeA EXCEPT !.vx = nodeA.vx + Div(fx * LS, 2 * massA) + Div(rx * LS, massA),
                       !.vy = nodeA.vy + Div(fy * LS, 2 * massA) + Div(ry * LS, massA)],
   b |-> [nodeB EXCEPT !.vx = nodeB.vx + Div(fx * LS, 2 * massB) - Div(rx * LS, massB),
                       !.vy = nodeB.vy + Div(fy * LS, 2 * massB) - Div(ry * LS, massB)]]

\* applyLinkDrag from the forces on: rotForceMag is the rotational force
dragForces(nodeA, nodeB, lx, ly, vParallel, vPerp, perpDragCoeff, parallelDragCoeff, rotForceMag) ==
  dragNodes(nodeA, nodeB,
            transDrag(lx, -ly, vParallel, vPerp, perpDragCoeff, parallelDragCoeff),
            transDrag(ly, lx, vParallel, vPerp, perpDragCoeff, parallelDragCoeff),
            Div((-ly) * rotForceMag, 2 * ES),
            Div(lx * rotForceMag, 2 * ES),
            massOf(nodeA), massOf(nodeB))

\* applyLinkDrag from the link direction (lx, ly) on; (px, py) = (-ly, lx) is
\* the normal, (cvx, cvy) the velocity of the link centre
dragAlong(nodeA, nodeB, viscosity, length, lx, ly, cvx, cvy) ==
  dragForces(nodeA, nodeB, lx, ly,
             Div(cvx * lx + cvy * ly, ES),
             Div(cvx * (-ly) + cvy * lx, ES),
             Div(length * viscosity, ES),
             Div(length * viscosity, 10 * ES),
             rotForce(Div(nodeA.vx * (-ly) + nodeA.vy * lx, ES),
                      Div(nodeB.vx * (-ly) + nodeB.vy * lx, ES), length, viscosity))

\* applyLinkDrag from the link vector (dx, dy) and its length on
dragOf(nodeA, nodeB, viscosity, dx, dy, length) ==
  dragAlong(nodeA, nodeB, viscosity, length, unitAlong(dx, dx, dy), unitAlong(dy, dx, dy),
            Div(nodeA.vx + nodeB.vx, 2), Div(nodeA.vy + nodeB.vy, 2))

\* applyLinkDrag(nodeA, nodeB, link, viscosity): the pair of updated nodes
applyLinkDrag(nodeA, nodeB, viscosity) ==
  dragOf(nodeA, nodeB, viscosity, nodeB.x - nodeA.x, nodeB.y - nodeA.y,
         OrEpsilon(Hypot(nodeB.x - nodeA.x, nodeB.y - nodeA.y)))

RECURSIVE SumActuation(_, _)
SumActuation(links, i) ==
  IF i > Len(links) THEN 0
  ELSE Div(links[i].actuationAmp * links[i].actuationFreq, (ES * ES * ES) \div EU)
       + SumActuation(links, i + 1)

\* getActuationCost(creature): the sum of amp * freq * 0.001, an energy
getActuationCost(creature) == SumActuation(creature.links, 1)

\* targetLength of applyLinkForces (physics.ts lines 116-121): wave is
\* Math.sin(phase)
targetLength(link, efficiency, wave) ==
  IF efficiency > 0 /\ link.actuationAmp > 0
  THEN link.restLength
       + Div(link.restLength * Div(Div(wave * link.actuationAmp, ES) * efficiency, ES), ES)
  ELSE link.restLength

\* dampingForce of applyLinkForces (physics.ts lines 136-141) for the
\* relative velocity along the spring
dampingForce(link, relVelAlongSpring, massA, massB) ==
  Div(relVelAlongSpring * (2 * Sqrt(Div(link.stiffness * Div(massA * massB, massA + massB), 10))),
      2 * LS)

\* the velocity updates of applyLinkForces (physics.ts lines 148-151)
forceNodes(nodeA, nodeB, fx, fy, massA, massB) ==
  [a |-> [nodeA EXCEPT !.vx = nodeA.vx + Div(fx * LS, massA), !.vy = nodeA.vy + Div(fy * LS, massA)],
   b |-> [nodeB EXCEPT !.vx = nodeB.vx - Div(fx * LS, massB), !.vy = nodeB.vy - Div(fy * LS, massB)]]

\* applyLinkForces from the total force along the spring on; (nx, ny) is
\* the direction of the spring
forceAlong(nodeA, nodeB, nx, ny, totalForce) ==
  forceNodes(nodeA, nodeB, Div(totalForce * nx, ES), Div(totalForce * ny, ES),
             massOf(nodeA), massOf(nodeB))

\* applyLinkForces from the direction (nx, ny) of the spring on
springAlong(nodeA, nodeB, link, efficiency, tick, dist, nx, ny) ==
  forceAlong(nodeA, nodeB, nx, ny,
             Div((dist - targetLength(link, efficiency,
                                      Sin(link.actuationPhase + Div(tick * link.actuationFreq, 100))))
                 * link.stiffness, ES)
             + dampingForce(link,
                            Div((nodeB.vx - nodeA.vx) * nx + (nodeB.vy - nodeA.vy) * ny, ES),
                            massOf(nodeA), massOf(nodeB)))

\* applyLinkForces from the vector (dx, dy) between the nodes and its length on
springOf(nodeA, nodeB, link, efficiency, tick, dx, dy, dist) ==
  springAlong(nodeA, nodeB, link, efficiency, tick, dist, unitAlong(dx, dx, dy), unitAlong(dy, dx, dy))

\* the body of the link loop of applyLinkForces (physics.ts lines 106-151)
linkForce(nodeA, nodeB, link, efficiency, tick) ==
  springOf(nodeA, nodeB, link, efficiency, tick, nodeB.x - nodeA.x, nodeB.y - nodeA.y,
           OrEpsilon(Hypot(nodeB.x - nodeA.x, nodeB.y - nodeA.y)))

\* whether creature.nodes[link.nodeA] and creature.nodes[link.nodeB] exist
linkEndsExist(nodes, link) ==
  /\ link.nodeA + 1 \in 1..Len(nodes)
  /\ link.nodeB + 1 \in 1..Len(nodes)

RECURSIVE linkForcesLoop(_, _, _, _, _)
linkForcesLoop(nodes, links, efficiency, tick, i) ==
  IF i > Len(links) THEN nodes
  ELSE IF ~linkEndsExist(nodes, links[i]) THEN linkForcesLoop(nodes, links, efficiency, tick, i + 1)
  ELSE CHOOSE out \in {linkForcesLoop(now, links, efficiency, tick, i + 1) :
                         now \in {setPair(nodes, links[i].nodeA + 1, links[i].nodeB + 1,
                                          linkForce(nodes[links[i].nodeA + 1], nodes[links[i].nodeB + 1],
                                                    links[i], efficiency, tick))}} : TRUE

\* applyLinkForces from the efficiency of the creature on
forcesAt(creature, tick, efficiency) ==
  [creature EXCEPT
     !.nodes = linkForcesLoop(creature.nodes, creature.links, efficiency, tick, 1),
     !.energy = IF efficiency > 0
                THEN creature.energy - Div(getActuationCost(creature) * efficiency, ES)
                ELSE creature.energy]

\* applyLinkForces(creature, tick, dt)
applyLinkForces(creature, tick) == forcesAt(creature, tick, getEnergyEfficiency(creature))

\* the position updates of applySelfCollision (physics.ts lines 174-185) for
\* the unit vector (nx, ny) and the overlap
pushApart(nodeA, nodeB, nx, ny, overlap, massA, massB) ==
  [a |-> [nodeA EXCEPT !.x = nodeA.x - Div(Div(nx * overlap, ES) * massB, massA + massB),
                       !.y = nodeA.y - Div(Div(ny * overlap, ES) * massB, massA + massB)],
   b |-> [nodeB EXCEPT !.x = nodeB.x + Div(Div(nx * overlap, ES) * massA, massA + massB),
                       !.y = nodeB.y + Div(Div(ny * overlap, ES) * massA, massA + massB)]]

\* applySelfCollision on one pair from the vector (dx, dy) and its length on
selfCollideAt(nodeA, nodeB, dx, dy, dist, minDist) ==
  IF dist < minDist
  THEN pushApart(nodeA, nodeB, unitAlong(dx, dx, dy), unitAlong(dy, dx, dy), minDist - dist,
                 massOf(nodeA), massOf(nodeB))
  ELSE [a |-> nodeA, b |-> nodeB]

\* the body of the pair loop of applySelfCollision (physics.ts lines 164-186)
selfCollidePair(nodeA, nodeB) ==
  selfCollideAt(nodeA, nodeB, nodeB.x - nodeA.x, nodeB.y - nodeA.y,
                OrEpsilon(Hypot(nodeB.x - nodeA.x, nodeB.y - nodeA.y)),
                nodeA.gene.size + nodeB.gene.size)

RECURSIVE selfCollisionLoop(_, _, _)
selfCollisionLoop(nodes, i, j) ==
  IF i > Len(nodes) THEN nodes
  ELSE IF j > Len(nodes) THEN selfCollisionLoop(nodes, i + 1, i + 2)
  ELSE CHOOSE out \in {selfCollisionLoop(now, i, j + 1) :
                         now \in {setPair(nodes, i, j, selfCollidePair(nodes[i], nodes[j]))}} : TRUE

\* applySelfCollision(creature)
applySelfCollision(creature) == [creature EXCEPT !.nodes = selfCollisionLoop(creature.nodes, 1, 2)]

RECURSIVE linkDragLoop(_, _, _, _)
linkDragLoop(nodes, links, viscosity, i) ==
  IF i > Len(links) THEN nodes
  ELSE IF ~linkEndsExist(nodes, links[i]) THEN linkDragLoop(nodes, links, viscosity, i + 1)
  ELSE CHOOSE out \in {linkDragLoop(now, links, viscosity, i + 1) :
                         now \in {setPair(nodes, links[i].nodeA + 1, links[i].nodeB + 1,
                                          applyLinkDrag(nodes[links[i].nodeA + 1],
                                                        nodes[links[i].nodeB + 1], viscosity))}} : TRUE

\* the link drag loop of updateCreaturePhysics (physics.ts lines 243-249)
applyLinkDrags(creature, viscosity) ==
  [creature EXCEPT !.nodes = linkDragLoop(creature.nodes, creature.links, viscosity, 1)]

\* the node drag loop of updateCreaturePhysics (physics.ts lines 252-254)
applyNodeDrags(creature, viscosity) ==
  [creature EXCEPT !.nodes = [i \in 1..Len(creature.nodes) |-> applyNodeDrag(creature.nodes[i], viscosity)]]

\* integrate(creature, dt) on one node
integrateNode(node, dt) == [node EXCEPT !.x = node.x + node.vx * dt, !.y = node.y + node.vy * dt]

\* integrate(creature, dt)
integrate(creature, dt) ==
  [creature EXCEPT !.nodes = [i \in 1..Len(creature.nodes) |-> integrateNode(creature.nodes[i], dt)]]

\* the four tests of applyBoundary on one node (physics.ts lines 210-225);
\* hw and hh are half the width and the height, r the radius, and the
\* boundary force is 0.5
boundLeft(node, hw, r) ==
  IF node.x - r < -hw THEN [node EXCEPT !.vx = node.vx + LS \div 2, !.x = -hw + r] ELSE node

\* the right-hand test with the impulse but without the clamp
boundRightNoClamp(node, hw, r) ==
  IF node.x + r > hw THEN [node EXCEPT !.vx = node.vx - LS \div 2] ELSE node

boundRight(node, hw, r) ==
  IF node.x + r > hw THEN [node EXCEPT !.vx = node.vx - LS \div 2, !.x = hw - r] ELSE node

boundTop(node, hh, r) ==
  IF node.y - r < -hh THEN [node EXCEPT !.vy = node.vy + LS \div 2, !.y = -hh + r] ELSE node

boundBottom(node, hh, r) ==
  IF node.y + r > hh THEN [node EXCEPT !.vy = node.vy - LS \div 2, !.y = hh - r] ELSE node

\* the body of the node loop of applyBoundary: the four tests in source order
boundaryNode(node, width, height) ==
  boundBottom(boundTop(boundRight(boundLeft(node, Div(width, 2), node.gene.size),
                                  Div(width, 2), node.gene.size),
                       Div(height, 2), node.gene.size),
              Div(height, 2), node.gene.size)

\* applyBoundary(creature, width, height)
applyBoundary(creature, width, height) ==
  [creature EXCEPT !.nodes = [i \in 1..Len(creature.nodes) |-> boundaryNode(creature.nodes[i], width, height)]]

\* updateCreaturePhysics(creature, world, dt)
updateCreaturePhysics(creature, config, tick, dt) ==
  IF ~creature.alive THEN creature
  ELSE applyBoundary(
         integrate(
           applyNodeDrags(
             applyLinkDrags(applySelfCollision(applyLinkForces(creature, tick)), config.viscosity),
             config.viscosity),
           dt),
         config.width, config.height)

\* updatePhysics(world, dt): every creature of the list
updatePhysics(creatures, config, tick, dt) ==
  [i \in 1..Len(creatures) |-> updateCreaturePhysics(creatures[i], config, tick, dt)]


\* --------------------------------------------------------------- collision
\* the key of a collision body: `c<creatureId>_n<nodeId>' or `f<foodId>'
nodeKey(creatureId, nodeId) == [kind |-> "c", id |-> creatureId, node |-> nodeId]

foodKey(foodId) == [kind |-> "f", id |-> foodId, node |-> 0]

\* BodyUserData of a node and of a food particle (an absent field is -1)
nodeData(creatureId, nodeId) ==
  [type |-> "node", creatureId |-> creatureId, nodeId |-> nodeId, foodId |-> -1]

foodData(foodId) == [type |-> "food", creatureId |-> -1, nodeId |-> -1, foodId |-> foodId]

\* bodies.set(key, body), and the update of an existing body.  The field
\* pos of a body is its place in the iteration order of the Map this.bodies,
\* which is the order of insertion (and of the createCircle calls).
setBody(bodies, key, body) ==
  [k \in DOMAIN bodies \cup {key} |-> IF k = key THEN body ELSE bodies[k]]

\* the body of the node loop of sync (collision.ts lines 39-59)
syncNode(bodies, creature, node) ==
  LET key == nodeKey(creature.id, node.id)
  IN  IF key \notin DOMAIN bodies
      THEN setBody(bodies, key, [x |-> node.x, y |-> node.y, r |-> node.gene.size,
                                 userData |-> nodeData(creature.id, node.id),
                                 pos |-> Cardinality(DOMAIN bodies) + 1])
      ELSE setBody(bodies, key, [bodies[key] EXCEPT !.x = node.x, !.y = node.y, !.r = node.gene.size])

\* the creature loop of sync (collision.ts lines 36-60) from node j of
\* creature i on
syncNodes(bodies, creatures, i, j) ==
  LET RECURSIVE nodesFrom(_, _, _)
      nodesFrom(b, c, n) ==
        IF ~creatures[c].alive \/ n > Len(creatures[c].nodes) THEN b
        ELSE CHOOSE out \in {nodesFrom(now, c, n + 1) :
                               now \in {syncNode(b, creatures[c], creatures[c].nodes[n])}} : TRUE
      RECURSIVE creaturesFrom(_, _, _)
      creaturesFrom(b, lo, hi) ==
        IF lo > hi THEN b
        ELSE IF lo = hi THEN nodesFrom(b, lo, IF lo = i THEN j ELSE 1)
        ELSE CHOOSE out \in {creaturesFrom(now, (lo + hi) \div 2 + 1, hi) :
                               now \in {creaturesFrom(b, lo, (lo + hi) \div 2)}} : TRUE
  IN  creaturesFrom(bodies, i, Len(creatures))

\* the body of the food loop of sync (collision.ts lines 63-81)
syncFoodItem(bodies, f) ==
  LET key == foodKey(f.id)
  IN  IF key \notin DOMAIN bodies
      THEN setBody(bodies, key, [x |-> f.x, y |-> f.y, r |-> f.radius, userData |-> foodData(f.id),
                                 pos |-> Cardinality(DOMAIN bodies) + 1])
      ELSE setBody(bodies, key, [bodies[key] EXCEPT !.x = f.x, !.y = f.y])

\* the food loop of sync (collision.ts lines 63-81) from particle i on
syncFood(bodies, food, i) ==
  LET RECURSIVE foodFrom(_, _, _)
      foodFrom(b, lo, hi) ==
        IF lo > hi THEN b
        ELSE IF lo = hi THEN syncFoodItem(b, food[lo])
        ELSE CHOOSE out \in {foodFrom(now, (lo + hi) \div 2 + 1, hi) :
                               now \in {foodFrom(b, lo, (lo + hi) \div 2)}} : TRUE
  IN  foodFrom(bodies, i, Len(food))

\* activeKeys at the end of the two loops of sync
activeKeys(creatures, food) ==
  UNION {{nodeKey(creatures[i].id, creatures[i].nodes[j].id) : j \in 1..Len(creatures[i].nodes)} :
            i \in {n \in 1..Len(creatures) : creatures[n].alive}}
  \cup {foodKey(food[i].id) : i \in 1..Len(food)}

\* sync without the removal of the stale bodies
syncKeepsStale(bodies, creatures, food) == syncFood(syncNodes(bodies, creatures, 1, 1), food, 1)

\* CollisionSystem.sync(world): the new value of this.bodies.  The bodies
\* that stay keep their order and close the gaps the deleted ones leave.
sync(bodies, creatures, food) ==
  LET synced == syncFood(syncNodes(bodies, creatures, 1, 1), food, 1)
      active == activeKeys(creatures, food)
      kept == {q \in DOMAIN synced : q \in active}
  IN  [k \in kept |->
         [synced[k] EXCEPT !.pos = Cardinality({q \in kept : synced[q].pos <= synced[k].pos})]]

\* two circles overlap: their distance is less than the sum of their radii
\* (circles further apart than that on one axis do not)
circlesOverlap(p, q) ==
  /\ q.x - p.x < p.r + q.r /\ p.x - q.x < p.r + q.r
  /\ q.y - p.y < p.r + q.r /\ p.y - q.y < p.r + q.r
  /\ (q.x - p.x) * (q.x - p.x) + (q.y - p.y) * (q.y - p.y) < (p.r + q.r) * (p.r + q.r)

\* the response of the collision library for bodies p and q: the depth and
\* the vector from p towards q scaled by the depth
response(p, q) ==
  LET dx == q.x - p.x
      dy == q.y - p.y
      overlap == p.r + q.r - Hypot(dx, dy)
  IN  [a |-> p.userData, b |-> q.userData, overlap |-> overlap,
       overlapV |-> [x |-> Div(unitAlong(dx, dx, dy) * overlap, ES),
                     y |-> Div(unitAlong(dy, dx, dy) * overlap, ES)]]

\* the place of body k in the iteration order of this.bodies
keyRank(bodies, k) == bodies[k].pos

\* the keys S of bodies in the iteration order of this.bodies
sortedKeys(bodies, S) ==
  LET ranks == {keyRank(bodies, k) : k \in S}
      RECURSIVE between(_, _)
      between(lo, hi) ==
        IF \A r \in ranks : r < lo \/ r > hi THEN <<>>
        ELSE IF lo = hi THEN <<CHOOSE k \in S : keyRank(bodies, k) = lo>>
        ELSE between(lo, (lo + hi) \div 2) \o between((lo + hi) \div 2 + 1, hi)
  IN  IF S = {} THEN <<>>
      ELSE between(CHOOSE r \in ranks : \A q \in ranks : r <= q,
                   CHOOSE r \in ranks : \A q \in ranks : r >= q)

\* the overlapping pairs of bodies ks[i], ks[j] with i < j, from (i, j) on
overlappingPairs(bodies, ks, i, j) ==
  LET row(a, b) ==
        SelectSeq([q \in 1..(Len(ks) + 1 - b) |-> <<ks[a], ks[b + q - 1]>>],
                  LAMBDA p : circlesOverlap(bodies[p[1]], bodies[p[2]]))
      RECURSIVE rows(_, _)
      rows(lo, hi) ==
        IF lo > hi THEN <<>>
        ELSE IF lo = hi THEN row(lo, IF lo = i THEN j ELSE lo + 1)
        ELSE rows(lo, (lo + hi) \div 2) \o rows((lo + hi) \div 2 + 1, hi)
  IN  rows(i, Len(ks))

\* CollisionSystem.getCollisions(): the lists the library may report.  Each
\* overlapping pair is reported once; the order is the library's.  The model
\* takes the enumeration above, over the bodies in the order in which they
\* were created, started at any pair, forwards or backwards, with the first
\* body as a in every pair, in no pair, in the pairs at the odd places of
\* the list or in the pairs at its even places.
getCollisions(bodies) ==
  LET base == overlappingPairs(bodies, sortedKeys(bodies, DOMAIN bodies), 1, 2)
      n == Len(base)
      at(start, back, i) == IF back THEN base[((start - 1 + n - i) % n) + 1]
                                    ELSE base[((start - 1 + i - 1) % n) + 1]
      flip(turn, i) == turn = 1 \/ (turn = 2 /\ i % 2 = 0) \/ (turn = 3 /\ i % 2 = 1)
      pairOf(p, turned) == IF turned THEN response(bodies[p[2]], bodies[p[1]])
                                   ELSE response(bodies[p[1]], bodies[p[2]])
  IN  IF n = 0 THEN {<<>>}
      ELSE {[i \in 1..n |-> pairOf(at(c[1], c[2], i), flip(c[3], i))] :
               c \in (1..n) \X BOOLEAN \X (0..3)}

\* ------------------------------------------------------------- interaction
\* array.find by id: the position of the first element with that id, 0 if none
findById(list, id) ==
  IF \E i \in 1..Len(list) : list[i].id = id
  THEN CHOOSE i \in 1..Len(list) : list[i].id = id /\ \A j \in 1..(i - 1) : list[j].id # id
  ELSE 0

\* The node-food branch of processCollisions (collision.ts lines 141-161) for
\* the i-th pair.  acc.creatures is the creature list, acc.foodToRemove the set
\* of that name; acc.eaten records the feedings in order.
feed(acc, food, pair, i) ==
  LET nodeD == IF pair.a.type = "node" THEN pair.a ELSE pair.b
      foodD == IF pair.a.type = "food" THEN pair.a ELSE pair.b
      c == findById(acc.creatures, nodeD.creatureId)
      f == findById(food, foodD.foodId)
      n == IF c = 0 THEN 0 ELSE findById(acc.creatures[c].nodes, nodeD.nodeId)
  IN  IF c # 0 /\ f # 0 /\ acc.creatures[c].alive /\ n # 0
         /\ acc.creatures[c].nodes[n].gene.type = "sucker"
      THEN LET gain == Div(food[f].energy * acc.creatures[c].nodes[n].gene.efficiency, ES)
           IN  [acc EXCEPT !.creatures[c].energy = @ + gain,
                           !.foodToRemove = @ \cup {food[f].id},
                           !.eaten = Append(@, [pair |-> i, food |-> food[f].id,
                                                creature |-> c, gain |-> gain])]
      ELSE acc

\* the drain of efficiency x 0.5 whatever the victim has left
drainUncapped(creatures, att, vic, node) ==
  IF node.gene.type = "sucker"
  THEN LET amount == Div(node.gene.efficiency * EU, 2 * ES)
       IN  [creatures EXCEPT ![att].energy = @ + Div(amount, 2),
                             ![vic].energy = @ - amount]
  ELSE creatures

\* the drain with the whole drained amount credited to the attacker
drainFullCredit(creatures, att, vic, node) ==
  IF node.gene.type = "sucker"
  THEN LET amount == Min(creatures[vic].energy, Div(node.gene.efficiency * EU, 2 * ES))
       IN  [creatures EXCEPT ![att].energy = @ + amount,
                             ![vic].energy = @ - amount]
  ELSE creatures

\* one direction of the drain (collision.ts lines 180-185): the Sucker node
\* `node' of creature `att' drains creature `vic'
drain(creatures, att, vic, node) ==
  IF node.gene.type = "sucker"
  THEN LET amount == Min(creatures[vic].energy, Div(node.gene.efficiency * EU, 2 * ES))
       IN  [creatures EXCEPT ![att].energy = @ + Div(amount, 2),
                             ![vic].energy = @ - amount]
  ELSE creatures

\* matingPairs.some with && in the place of ||
alreadyMatingBoth(creatures, matingPairs, id) ==
  \E k \in 1..Len(matingPairs) :
     creatures[matingPairs[k][1]].id = id /\ creatures[matingPairs[k][2]].id = id

\* matingPairs.some(([a, b]) => a.id === id || b.id === id); a pair holds the
\* positions of its two creatures in world.creatures
alreadyMating(creatures, matingPairs, id) ==
  \E k \in 1..Len(matingPairs) :
     creatures[matingPairs[k][1]].id = id \/ creatures[matingPairs[k][2]].id = id

\* creatureA.nodes[pair.a.nodeId] and creatureB.nodes[pair.b.nodeId] both exist
\* (collision.ts lines 220-222)
separable(creatures, a, b, pair) ==
  /\ pair.a.nodeId + 1 \in 1..Len(creatures[a].nodes)
  /\ pair.b.nodeId + 1 \in 1..Len(creatures[b].nodes)

\* the separation impulse (collision.ts lines 220-228) on creatures a and b
separate(creatures, a, b, pair) ==
  LET ia == pair.a.nodeId + 1
      ib == pair.b.nodeId + 1
  IN  IF separable(creatures, a, b, pair)
      THEN [creatures EXCEPT
              ![a].nodes[ia].vx = @ - Div(pair.overlapV.x * 3, 10),
              ![a].nodes[ia].vy = @ - Div(pair.overlapV.y * 3, 10),
              ![b].nodes[ib].vx = @ + Div(pair.overlapV.x * 3, 10),
              ![b].nodes[ib].vy = @ + Div(pair.overlapV.y * 3, 10)]
      ELSE creatures

\* The node-node branch of processCollisions (collision.ts lines 164-229) for
\* the i-th pair; acc.pushed records the pairs that got the impulse,
\* acc.credited the creatures whose energy a drain of theirs has raised.
touch(acc, config, pair, i) ==
  LET a == findById(acc.creatures, pair.a.creatureId)
      b == findById(acc.creatures, pair.b.creatureId)
  IN  IF a = 0 \/ b = 0 THEN acc
      ELSE IF ~acc.creatures[a].alive \/ ~acc.creatures[b].alive THEN acc
      ELSE
      LET na == findById(acc.creatures[a].nodes, pair.a.nodeId)
          nb == findById(acc.creatures[b].nodes, pair.b.nodeId)
      IN  IF na = 0 \/ nb = 0 THEN acc
          ELSE
          LET nodeA == acc.creatures[a].nodes[na]
              nodeB == acc.creatures[b].nodes[nb]
              d1 == drain(acc.creatures, a, b, nodeA)
              d2 == drain(d1, b, a, nodeB)
              bothMating == nodeA.gene.type = "mating" /\ nodeB.gene.type = "mating"
              tooPoor == \/ d2[a].energy < config.matingEnergyThreshold
                         \/ d2[b].energy < config.matingEnergyThreshold
              queue == /\ ~alreadyMating(d2, acc.matingPairs, d2[a].id)
                       /\ ~alreadyMating(d2, acc.matingPairs, d2[b].id)
              gainers == (IF d1[a].energy > acc.creatures[a].energy THEN {a} ELSE {})
                         \cup (IF d2[b].energy > d1[b].energy THEN {b} ELSE {})
          IN  IF bothMating /\ tooPoor
              THEN [acc EXCEPT !.creatures = d2, !.credited = @ \cup gainers]
              ELSE [acc EXCEPT !.creatures = separate(d2, a, b, pair),
                               !.credited = @ \cup gainers,
                               !.matingPairs = IF bothMating /\ queue THEN Append(@, <<a, b>>) ELSE @,
                               !.pushed = IF separable(d2, a, b, pair) THEN @ \cup {i} ELSE @]

\* the body of the pair loop of processCollisions for the i-th pair
processPair(acc, food, config, pair, i) ==
  LET fed == IF \/ (pair.a.type = "node" /\ pair.b.type = "food")
                \/ (pair.a.type = "food" /\ pair.b.type = "node")
             THEN feed(acc, food, pair, i)
             ELSE acc
  IN  IF pair.a.type = "node" /\ pair.b.type = "node" /\ pair.a.creatureId # pair.b.creatureId
      THEN touch(fed, config, pair, i)
      ELSE fed

RECURSIVE processPairs(_, _, _, _, _)
processPairs(acc, food, config, pairs, i) ==
  IF i > Len(pairs) THEN acc
  ELSE CHOOSE out \in {processPairs(now, food, config, pairs, i + 1) :
                         now \in {processPair(acc, food, config, pairs[i], i)}} : TRUE

\* processCollisions(world, pairs): the creature list, the food list and
\* world._pendingMating it leaves, with the record of what the loop did
processCollisions(creatures, food, config, pairs) ==
  LET acc == processPairs([creatures |-> creatures, foodToRemove |-> {}, matingPairs |-> <<>>,
                           eaten |-> <<>>, pushed |-> {}, credited |-> {}], food, config, pairs, 1)
  IN  [creatures |-> acc.creatures,
       food |-> SelectSeq(food, LAMBDA f : f.id \notin acc.foodToRemove),
       pendingMating |-> acc.matingPairs,
       eaten |-> acc.eaten,
       pushed |-> acc.pushed,
       credited |-> acc.credited]


\* -------------------------------------------------------------- simulation
\* DEFAULT_CONFIG (simulation.ts lines 169-181)
DEFAULT_CONFIG ==
  [width |-> 800 * LS, height |-> 600 * LS, viscosity |-> ES \div 10,
   insolation |-> (5 * EU) \div 100, foodSpawnRate |-> ES \div 10, foodEnergy |-> 20 * EU,
   matingEnergyCost |-> 30 * EU, matingEnergyThreshold |-> 50 * EU,
   divisionEnergyThreshold |-> 150 * EU, mutationRate |-> ES \div 10,
   mutationStrength |-> (3 * ES) \div 10]

\* createWorld(config): `config' overrides fields of DEFAULT_CONFIG
createWorld(config) ==
  [config |-> [k \in DOMAIN DEFAULT_CONFIG |->
                  IF k \in DOMAIN config THEN config[k] ELSE DEFAULT_CONFIG[k]],
   creatures |-> <<>>, food |-> <<>>, tick |-> 0, nextCreatureId |-> 0, nextFoodId |-> 0,
   pendingMating |-> [defined |-> FALSE, pairs |-> <<>>]]

\* The loop of randomGenome (genome.ts lines 136-158) from node i on; g holds
\* the draws: g.genes[i] those made for node i.
RECURSIVE randomGenes(_, _, _, _)
randomGenes(numNodes, g, i, genome) ==
  IF i >= numNodes THEN genome
  ELSE LET d == geneDraws(g, i + 1)
           backbone == IF i > 0 THEN <<-1>> ELSE <<>>
           backRef == -FloorRand(d.back, Min(i, 3)) - 1
           links == IF d.extra < 300 /\ i > 1 /\ (\A k \in 1..Len(backbone) : backbone[k] # backRef)
                    THEN Append(backbone, backRef)
                    ELSE backbone
           gene == NodeGene(SegmentTypeValues[FloorRand(d.type, Len(SegmentTypeValues)) + 1],
                            3 * LS + Div(d.size * 7 * LS, ES),
                            (3 * ES) \div 10 + Div(d.eff, 2),
                            links)
       IN  randomGenes(numNodes, g, i + 1, Append(genome, gene))

\* randomGenome(minNodes = 2, maxNodes = 6)
randomGenome(g) == randomGenes(2 + FloorRand(g.num, 6 - 2 + 1), g, 0, <<>>)

\* an optional argument: given, or left undefined
Some(v) == [some |-> TRUE, v |-> v]

None == [some |-> FALSE, v |-> 0]

\* spawnRandomCreature that uses world.nextCreatureId without incrementing it
spawnRandomCreatureNoCount(world, x, y, energy, rng) ==
  LET px == IF ~x.some THEN Div(Div((rng.x - ES \div 2) * world.config.width, ES) * 8, 10) ELSE x.v
      py == IF ~y.some THEN Div(Div((rng.y - ES \div 2) * world.config.height, ES) * 8, 10) ELSE y.v
      creature == createCreature(world.nextCreatureId, randomGenome(rng.genome), px, py, energy, rng.body)
  IN  [world EXCEPT !.creatures = Append(@, creature)]

\* spawnRandomCreature(world, x, y, energy); an undefined x or y is drawn
\* (rng.x, rng.y)
spawnRandomCreature(world, x, y, energy, rng) ==
  LET px == IF ~x.some THEN Div(Div((rng.x - ES \div 2) * world.config.width, ES) * 8, 10) ELSE x.v
      py == IF ~y.some THEN Div(Div((rng.y - ES \div 2) * world.config.height, ES) * 8, 10) ELSE y.v
      creature == createCreature(world.nextCreatureId, randomGenome(rng.genome), px, py, energy, rng.body)
  IN  [world EXCEPT !.nextCreatureId = @ + 1, !.creatures = Append(@, creature)]

\* spawnFood(world, x, y)
spawnFood(world, x, y, rng) ==
  LET px == IF ~x.some THEN Div(Div((rng.foodX - ES \div 2) * world.config.width, ES) * 9, 10) ELSE x.v
      py == IF ~y.some THEN Div(Div((rng.foodY - ES \div 2) * world.config.height, ES) * 9, 10) ELSE y.v
  IN  [world EXCEPT !.nextFoodId = @ + 1,
                    !.food = Append(@, [id |-> world.nextFoodId, x |-> px, y |-> py,
                                        energy |-> world.config.foodEnergy, radius |-> 3 * LS])]

\* The particle loop of creatureToFood (simulation.ts lines 237-248): n more
\* particles; rng.deathAngle and rng.deathDist are the two draws.
RECURSIVE foodParticles(_, _, _, _, _)
foodParticles(world, center, energyPerParticle, n, rng) ==
  IF n = 0 THEN world
  ELSE LET angle == Div(rng.deathAngle * 628, ES)
           dist == Div(rng.deathDist * 20 * LS, ES)
           particle == [id |-> world.nextFoodId,
                        x |-> center.x + Div(Cos(angle) * dist, ES),
                        y |-> center.y + Div(Sin(angle) * dist, ES),
                        energy |-> Max(5 * EU, energyPerParticle), radius |-> 3 * LS]
       IN  foodParticles([world EXCEPT !.nextFoodId = @ + 1, !.food = Append(@, particle)],
                         center, energyPerParticle, n - 1, rng)

\* creatureToFood(world, creature); mass is getCreatureMass(creature) in
\* units of 1/(LS * LS)
creatureToFood(world, creature, rng) ==
  LET center == getCreatureCenter(creature)
      mass == SumMass(creature.nodes, 1)
      numParticles == Max(1, massDiv50(creature.nodes))
      energyPerParticle == Div(creature.energy + MulDiv(EU, mass, 10 * LS * LS), numParticles)
  IN  foodParticles(world, center, energyPerParticle, numParticles, rng)


\* reproduce with each parent paying the whole matingEnergyCost
reproduceFullCost(world, a, b, rng) ==
  LET parentA == world.creatures[a]
      parentB == world.creatures[b]
      config == world.config
  IN  IF \/ parentA.energy < config.matingEnergyThreshold
         \/ parentB.energy < config.matingEnergyThreshold
      THEN world
      ELSE
      LET paid == [world.creatures EXCEPT ![a].energy = @ - config.matingEnergyCost,
                                          ![b].energy = @ - config.matingEnergyCost]
          crossed == crossover(parentA.genome, parentB.genome, rng.cutA, rng.cutB, rng.crossCoin)
          mutated == mutate(crossed, config.mutationRate, config.mutationStrength, rng.mutation)
          childGenome == IF Len(mutated) = 0
                         THEN (IF rng.parentCoin < ES \div 2 THEN parentA.genome ELSE parentB.genome)
                         ELSE mutated
          centerA == getCreatureCenter(paid[a])
          centerB == getCreatureCenter(paid[b])
          childX == Div(centerA.x + centerB.x, 2) + Div((rng.childX - ES \div 2) * 30 * LS, ES)
          childY == Div(centerA.y + centerB.y, 2) + Div((rng.childY - ES \div 2) * 30 * LS, ES)
          childEnergy == config.matingEnergyThreshold
      IN  [world EXCEPT
             !.creatures = Append(paid, createCreature(world.nextCreatureId, childGenome,
                                                       childX, childY, childEnergy, rng.body)),
             !.nextCreatureId = @ + 1]

\* reproduce that takes a creature id before it tests the energies
reproduceCountsRefusal(world, a, b, rng) ==
  IF \/ world.creatures[a].energy < world.config.matingEnergyThreshold
     \/ world.creatures[b].energy < world.config.matingEnergyThreshold
  THEN [world EXCEPT !.nextCreatureId = @ + 1]
  ELSE reproduceFullCost(world, a, b, rng)

\* reproduce(world, parentA, parentB); a and b are the positions of the two
\* parents in world.creatures.  The result is the world it leaves.
reproduce(world, a, b, rng) ==
  LET parentA == world.creatures[a]
      parentB == world.creatures[b]
      config == world.config
  IN  IF \/ parentA.energy < config.matingEnergyThreshold
         \/ parentB.energy < config.matingEnergyThreshold
      THEN world
      ELSE
      LET paid == [world.creatures EXCEPT ![a].energy = @ - Div(config.matingEnergyCost, 2),
                                          ![b].energy = @ - Div(config.matingEnergyCost, 2)]
          crossed == crossover(parentA.genome, parentB.genome, rng.cutA, rng.cutB, rng.crossCoin)
          mutated == mutate(crossed, config.mutationRate, config.mutationStrength, rng.mutation)
          childGenome == IF Len(mutated) = 0
                         THEN (IF rng.parentCoin < ES \div 2 THEN parentA.genome ELSE parentB.genome)
                         ELSE mutated
          centerA == getCreatureCenter(paid[a])
          centerB == getCreatureCenter(paid[b])
          childX == Div(centerA.x + centerB.x, 2) + Div((rng.childX - ES \div 2) * 30 * LS, ES)
          childY == Div(centerA.y + centerB.y, 2) + Div((rng.childY - ES \div 2) * 30 * LS, ES)
          childEnergy == config.matingEnergyThreshold
      IN  IF createCreatureThrows(childGenome)
          THEN [world EXCEPT !.creatures = paid, !.nextCreatureId = @ + 1]
          ELSE [world EXCEPT
                  !.creatures = Append(paid, createCreature(world.nextCreatureId, childGenome,
                                                            childX, childY, childEnergy, rng.body)),
                  !.nextCreatureId = @ + 1]

\* whether reproduce(world, a, b) throws: createCreature gets an empty genome
reproduceThrows(world, a, b, rng) ==
  LET parentA == world.creatures[a]
      parentB == world.creatures[b]
      config == world.config
      crossed == crossover(parentA.genome, parentB.genome, rng.cutA, rng.cutB, rng.crossCoin)
      mutated == mutate(crossed, config.mutationRate, config.mutationStrength, rng.mutation)
      childGenome == IF Len(mutated) = 0
                     THEN (IF rng.parentCoin < ES \div 2 THEN parentA.genome ELSE parentB.genome)
                     ELSE mutated
  IN  /\ parentA.energy >= config.matingEnergyThreshold
      /\ parentB.energy >= config.matingEnergyThreshold
      /\ createCreatureThrows(childGenome)

\* the sum of size * size over the Solar nodes of the living creatures
\* (the first loop of applySolarEnergy), from node j of creature i on
solarArea(creatures, i, j) ==
  LET RECURSIVE nodesFrom(_, _)
      nodesFrom(c, n) ==
        IF ~creatures[c].alive \/ n > Len(creatures[c].nodes) THEN 0
        ELSE (IF creatures[c].nodes[n].gene.type = "solar" THEN massOf(creatures[c].nodes[n]) ELSE 0)
             + nodesFrom(c, n + 1)
      RECURSIVE creaturesFrom(_, _)
      creaturesFrom(lo, hi) ==
        IF lo > hi THEN 0
        ELSE IF lo = hi THEN nodesFrom(lo, IF lo = i THEN j ELSE 1)
        ELSE creaturesFrom(lo, (lo + hi) \div 2) + creaturesFrom((lo + hi) \div 2 + 1, hi)
  IN  creaturesFrom(i, Len(creatures))

\* the income of one creature in the second loop of applySolarEnergy
RECURSIVE solarIncome(_, _, _, _)
solarIncome(creature, totalSolarEnergy, totalSolarArea, j) ==
  IF j > Len(creature.nodes) THEN 0
  ELSE (IF creature.nodes[j].gene.type = "solar"
        THEN Div(totalSolarEnergy * massOf(creature.nodes[j]), totalSolarArea)
        ELSE 0)
       + solarIncome(creature, totalSolarEnergy, totalSolarArea, j + 1)

\* applySolarEnergy left out
applySolarEnergyNone(world) == world

\* applySolarEnergy with size^2 x insolation for every Solar node, whatever
\* the other Solar nodes
applySolarEnergyPerNode(world) ==
  LET totalSolarArea == solarArea(world.creatures, 1, 1)
      totalSolarEnergy == world.config.insolation * 100
  IN  IF totalSolarArea = 0 THEN world
      ELSE [world EXCEPT !.creatures =
              [i \in 1..Len(world.creatures) |->
                 IF ~world.creatures[i].alive THEN world.creatures[i]
                 ELSE [world.creatures[i] EXCEPT
                         !.energy = @ + solarIncome(world.creatures[i], world.config.insolation, LS, 1)]]]

\* applySolarEnergy(world)
applySolarEnergy(world) ==
  LET totalSolarArea == solarArea(world.creatures, 1, 1)
      totalSolarEnergy == world.config.insolation * 100
  IN  IF totalSolarArea = 0 THEN world
      ELSE [world EXCEPT !.creatures =
              [i \in 1..Len(world.creatures) |->
                 IF ~world.creatures[i].alive THEN world.creatures[i]
                 ELSE [world.creatures[i] EXCEPT
                         !.energy = @ + solarIncome(world.creatures[i], totalSolarEnergy, totalSolarArea, 1)]]]

\* The loop of processDivision (simulation.ts lines 329-350) from creature i
\* on.  st.world is the world, st.newCreatures the local list of that name,
\* st.threw whether createCreature has thrown (the loop then stops).
RECURSIVE divisionLoop(_, _, _)
divisionLoop(st, i, rng) ==
  IF st.threw \/ i > Len(st.world.creatures) THEN st
  ELSE LET creature == st.world.creatures[i]
           config == st.world.config
       IN  IF ~creature.alive \/ creature.energy < config.divisionEnergyThreshold
           THEN divisionLoop(st, i + 1, rng)
           ELSE
           LET totalEnergy == creature.energy
               childEnergy == Div(totalEnergy * 4, 10)
               kept == [st.world EXCEPT !.creatures[i].energy = Div(totalEnergy * 4, 10)]
               childGenome == mutate(creature.genome, config.mutationRate,
                                     config.mutationStrength, rng.mutation)
               center == getCreatureCenter(creature)
               angle == Div(rng.divisionAngle * 628, ES)
               dist == 30 * LS
               childX == center.x + Div(Cos(angle) * dist, ES)
               childY == center.y + Div(Sin(angle) * dist, ES)
               counted == [kept EXCEPT !.nextCreatureId = @ + 1]
           IN  IF createCreatureThrows(childGenome)
               THEN [st EXCEPT !.world = counted, !.threw = TRUE]
               ELSE CHOOSE out \in {divisionLoop(now, i + 1, rng) :
                                      now \in {[st EXCEPT
                                                  !.world = counted,
                                                  !.newCreatures = Append(@, createCreature(kept.nextCreatureId,
                                                      childGenome, childX, childY, childEnergy, rng.body))]}} : TRUE

\* processDivision(world): the world it leaves and whether it threw
processDivision(world, rng) ==
  LET st == divisionLoop([world |-> world, newCreatures |-> <<>>, threw |-> FALSE], 1, rng)
  IN  IF st.threw
      THEN [world |-> st.world, threw |-> TRUE]
      ELSE [world |-> [st.world EXCEPT !.creatures = @ \o st.newCreatures], threw |-> FALSE]

\* The loop of processDeaths (simulation.ts lines 357-362) from creature i on;
\* j is the next creature the loop finds alive with energy <= 0
RECURSIVE deathLoop(_, _, _)
deathLoop(world, i, rng) ==
  LET dying == {k \in i..Len(world.creatures) :
                  world.creatures[k].alive /\ world.creatures[k].energy <= 0}
      j == CHOOSE k \in dying : \A l \in dying : k <= l
  IN  IF dying = {} THEN world
      ELSE CHOOSE out \in {deathLoop(now, j + 1, rng) :
                             now \in {creatureToFood([world EXCEPT !.creatures[j].alive = FALSE],
                                                     world.creatures[j], rng)}} : TRUE

\* processDeaths without the filter that removes the dead creatures
processDeathsNoFilter(world, rng) == deathLoop(world, 1, rng)

\* processDeaths(world)
processDeaths(world, rng) ==
  LET marked == deathLoop(world, 1, rng)
  IN  [marked EXCEPT !.creatures = SelectSeq(@, LAMBDA c : c.alive)]

\* the aging loop without the passive energy drain
ageCreaturesFree(world) ==
  [world EXCEPT !.creatures =
     [i \in 1..Len(world.creatures) |-> [world.creatures[i] EXCEPT !.age = @ + 1]]]

\* the aging loop of step (simulation.ts lines 398-402)
ageCreatures(world) ==
  [world EXCEPT !.creatures =
     [i \in 1..Len(world.creatures) |->
        [world.creatures[i] EXCEPT !.age = @ + 1, !.energy = @ - EU \div 100]]]


\* ------------------------------------------------------------------- draws
\* The values Math.random() returns are inputs of the model.  A profile names
\* the value returned at each call site during one call of an exported
\* function; every call at the same site returns that value.

\* draws that leave a gene as it is
KeepDraws ==
  [type |-> 999, typeSel |-> 0, size |-> 999, sizeAmt |-> 500, eff |-> 999, effAmt |-> 500,
   link |-> 999, action |-> 0, idx |-> 0, newLink |-> 500, coin |-> 0, coin2 |-> 0, del |-> 999]

\* draws that delete a gene
DeleteDraws == [KeepDraws EXCEPT !.del = 0]

\* draws that change every field of a gene and add the link offset +3
ChangeDraws ==
  [type |-> 0, typeSel |-> 750, size |-> 0, sizeAmt |-> 999, eff |-> 0, effAmt |-> 0,
   link |-> 0, action |-> 500, idx |-> 0, newLink |-> 999, coin |-> 0, coin2 |-> 0, del |-> 999]

\* draws of randomGenome for one node: its type, size 5 and efficiency 0.4
NodeDraws(type) == [type |-> type, size |-> 286, eff |-> 200, extra |-> 999, back |-> 0]

\* no actuation on the links of a new creature
StillBody == [angle |-> 0, act |-> 999, amp |-> 0, freq |-> 0, phase |-> 0]

\* actuation on every link of a new creature
ActiveBody == [angle |-> 0, act |-> 0, amp |-> 500, freq |-> 500, phase |-> 250]

\* no food spawned, nothing mutated, one gene of each parent, a random
\* genome (mating, mating) at the centre of the world
Quiet ==
  [foodSpawn |-> 999, foodX |-> 200, foodY |-> 200, x |-> 500, y |-> 500,
   genome |-> [num |-> 0, genes |-> <<NodeDraws(750), NodeDraws(750)>>, rest |-> NodeDraws(0)],
   body |-> StillBody,
   cutA |-> 500, cutB |-> 500, crossCoin |-> 0, parentCoin |-> 0,
   mutation |-> [genes |-> <<>>, rest |-> KeepDraws, dup |-> 999, dupGene |-> 0, dupLinks |-> 0],
   childX |-> 500, childY |-> 500, divisionAngle |-> 0, deathAngle |-> 0, deathDist |-> 0]

\* food spawned on the Sucker node, every gene deleted, an empty crossover,
\* a random genome (mating, sucker)
Lossy ==
  [foodSpawn |-> 0, foodX |-> 555, foodY |-> 632, x |-> 458, y |-> 541,
   genome |-> [num |-> 0, genes |-> <<NodeDraws(750), NodeDraws(250)>>, rest |-> NodeDraws(0)],
   body |-> StillBody,
   cutA |-> 0, cutB |-> 999, crossCoin |-> 999, parentCoin |-> 999,
   mutation |-> [genes |-> <<>>, rest |-> DeleteDraws, dup |-> 999, dupGene |-> 0, dupLinks |-> 0],
   childX |-> 0, childY |-> 999, divisionAngle |-> 250, deathAngle |-> 500, deathDist |-> 999]

\* food spawned, every gene changed and one duplicated, both genomes joined,
\* a random genome (sucker, solar) with actuated links
Busy ==
  [foodSpawn |-> 0, foodX |-> 536, foodY |-> 463, x |-> 541, y |-> 458,
   genome |-> [num |-> 0, genes |-> <<NodeDraws(250), NodeDraws(500)>>, rest |-> NodeDraws(0)],
   body |-> ActiveBody,
   cutA |-> 999, cutB |-> 0, crossCoin |-> 0, parentCoin |-> 0,
   mutation |-> [genes |-> <<ChangeDraws>>, rest |-> KeepDraws, dup |-> 0, dupGene |-> 0, dupLinks |-> 999],
   childX |-> 999, childY |-> 0, divisionAngle |-> 750, deathAngle |-> 250, deathDist |-> 500]

RngPool == {Quiet, Lossy, Busy}

\* the starting energies passed to spawnRandomCreature: 0.01 and the default 50
SpawnEnergy == {EU \div 100, 50 * EU}

\* the configurations passed to createWorld: a world of 100 by 100 with the
\* default thresholds, and one where the default starting energy of 50
\* reaches the division threshold
ConfigPool ==
  {[width |-> 100 * LS, height |-> 100 * LS],
   [width |-> 100 * LS, height |-> 100 * LS, divisionEnergyThreshold |-> 40 * EU]}

\* ------------------------------------------------------------------- state
VARIABLES
  world,        \* the World object
  bodies,       \* CollisionSystem.bodies
  collisions,   \* the local `collisions' of step; empty outside step
  pc,           \* the phase of step that runs next; "idle" outside step
  rng,          \* the draws of the running step; Quiet outside step
  calls,        \* how many spawn calls were made from outside step
  before,       \* the world when the running step was called
  done,         \* the phases the last call of step has completed, in order
  log,          \* what the phases of the last call of step did
  issued,       \* the ids of all creatures and food particles ever added
  call          \* the call of a function made on its own: its name, its
                \* arguments and what it returned

vars == <<world, bodies, collisions, pc, rng, calls, before, done, log, issued, call>>

\* step with the collision sync and detection moved before updatePhysics
stepOrderCollideFirst ==
  <<"tick", "food", "solar", "collision", "physics", "interaction", "mating",
    "aging", "division", "death">>

\* the statements of step in source order (simulation.ts lines 369-408)
stepOrder ==
  <<"tick", "food", "solar", "physics", "collision", "interaction", "mating",
    "aging", "division", "death">>

\* the phase that follows phase p; "idle" when step returns
nextPhase(p) ==
  LET i == CHOOSE k \in 1..Len(stepOrder) : stepOrder[k] = p
  IN  IF i = Len(stepOrder) THEN "idle" ELSE stepOrder[i + 1]

EmptyLog ==
  [eaten |-> <<>>, pushed |-> {}, credited |-> {}, sunned |-> {}, queued |-> <<>>,
   born |-> 0, split |-> 0, died |-> 0]

\* the ids of the elements appended to a list
appended(old, new) == [i \in 1..(Len(new) - Len(old)) |-> new[Len(old) + i].id]

Init ==
  /\ world \in {createWorld(c) : c \in ConfigPool}
  /\ bodies = <<>>
  /\ collisions = <<>>
  /\ pc = "idle"
  /\ rng = Quiet
  /\ calls = [creature |-> 0, food |-> 0]
  /\ before = world
  /\ done = <<>>
  /\ log = EmptyLog
  /\ issued = [creatures |-> <<>>, food |-> <<>>]
  /\ call = [fn |-> "none"]


\* ----------------------------------------------------------------- actions
\* spawnRandomCreature(world) called from outside step, with a starting energy
SpawnRandomCreature ==
  /\ pc = "idle"
  /\ calls.creature < MaxSpawn
  /\ \E r \in RngPool, energy \in SpawnEnergy :
        world' = spawnRandomCreature(world, None, None, energy, r)
  /\ calls' = [calls EXCEPT !.creature = @ + 1]
  /\ issued' = [issued EXCEPT !.creatures = @ \o appended(world.creatures, world'.creatures)]
  /\ UNCHANGED <<call, bodies, collisions, pc, rng, before, done, log>>

\* spawnFood(world) called from outside step, also after a step that threw
SpawnFood ==
  /\ pc \in {"idle", "aborted"}
  /\ calls.food < MaxFood
  /\ \E r \in RngPool : world' = spawnFood(world, None, None, r)
  /\ calls' = [calls EXCEPT !.food = @ + 1]
  /\ issued' = [issued EXCEPT !.food = @ \o appended(world.food, world'.food)]
  /\ UNCHANGED <<call, bodies, collisions, pc, rng, before, done, log>>

RECURSIVE spawnCreatures(_, _, _)
spawnCreatures(w, n, r) ==
  IF n = 0 THEN w ELSE spawnCreatures(spawnRandomCreature(w, None, None, 50 * EU, r), n - 1, r)

RECURSIVE spawnFoods(_, _, _)
spawnFoods(w, n, r) ==
  IF n = 0 THEN w ELSE spawnFoods(spawnFood(w, None, None, r), n - 1, r)

\* initializeWorld(world, numCreatures, numFood)
initializeWorld(w, numCreatures, numFood, r) ==
  spawnFoods(spawnCreatures(w, numCreatures, r), numFood, r)

\* initializeWorld called on the new world
InitializeWorld ==
  /\ pc = "idle"
  /\ calls = [creature |-> 0, food |-> 0]
  /\ world.tick = 0
  /\ \E r \in RngPool, numCreatures \in 1..MaxSpawn, numFood \in 0..MaxFood :
        /\ world' = initializeWorld(world, numCreatures, numFood, r)
        /\ calls' = [creature |-> numCreatures, food |-> numFood]
  /\ issued' = [creatures |-> issued.creatures \o appended(world.creatures, world'.creatures),
                food |-> issued.food \o appended(world.food, world'.food)]
  /\ UNCHANGED <<call, bodies, collisions, pc, rng, before, done, log>>

\* step is called: world.tick++ (simulation.ts line 370).  The game loop of
\* main.ts (lines 39-61) is the caller; a step that threw ends the loop, as
\* the next frame is requested after the steps.
Tick ==
  /\ pc = "idle"
  /\ world.tick < MaxTick
  /\ world' = [world EXCEPT !.tick = @ + 1]
  /\ rng' \in RngPool
  /\ before' = world
  /\ done' = <<"tick">>
  /\ log' = EmptyLog
  /\ collisions' = <<>>
  /\ pc' = nextPhase("tick")
  /\ UNCHANGED <<call, bodies, calls, issued>>

\* the food spawn of step (simulation.ts lines 373-375)
Food ==
  /\ pc = "food"
  /\ world' = IF rng.foodSpawn < world.config.foodSpawnRate
              THEN spawnFood(world, None, None, rng)
              ELSE world
  /\ issued' = [issued EXCEPT !.food = @ \o appended(world.food, world'.food)]
  /\ done' = Append(done, "food")
  /\ pc' = nextPhase("food")
  /\ UNCHANGED <<call, bodies, collisions, rng, calls, before, log>>

\* applySolarEnergy(world) in step
Solar ==
  /\ pc = "solar"
  /\ world' = applySolarEnergy(world)
  /\ log' = [log EXCEPT !.sunned = {i \in 1..Len(world.creatures) :
                                       world'.creatures[i].energy > world.creatures[i].energy}]
  /\ done' = Append(done, "solar")
  /\ pc' = nextPhase("solar")
  /\ UNCHANGED <<call, bodies, collisions, rng, calls, before, issued>>

\* updatePhysics(world, dt) in step, dt = 1
Physics ==
  /\ pc = "physics"
  /\ world' = [world EXCEPT !.creatures = updatePhysics(world.creatures, world.config, world.tick, 1)]
  /\ done' = Append(done, "physics")
  /\ pc' = nextPhase("physics")
  /\ UNCHANGED <<call, bodies, collisions, rng, calls, before, log, issued>>

\* collisionSystem.sync(world) and getCollisions() in step
Collision ==
  /\ pc = "collision"
  /\ bodies' = sync(bodies, world.creatures, world.food)
  /\ collisions' \in getCollisions(bodies')
  /\ done' = Append(done, "collision")
  /\ pc' = nextPhase("collision")
  /\ UNCHANGED <<call, world, rng, calls, before, log, issued>>

\* processCollisions(world, collisions) in step
Interaction ==
  /\ pc = "interaction"
  /\ LET r == processCollisions(world.creatures, world.food, world.config, collisions)
     IN  /\ world' = [world EXCEPT !.creatures = r.creatures, !.food = r.food,
                                   !.pendingMating = [defined |-> TRUE, pairs |-> r.pendingMating]]
         /\ log' = [log EXCEPT !.eaten = r.eaten, !.pushed = r.pushed, !.credited = r.credited,
                                 !.queued = r.pendingMating]
  /\ done' = Append(done, "interaction")
  /\ pc' = nextPhase("interaction")
  /\ UNCHANGED <<call, bodies, collisions, rng, calls, before, issued>>

\* the loop over pendingMating run from the last pair to the first
RECURSIVE matingLoopReversed(_, _, _, _)
matingLoopReversed(st, pairs, k, r) ==
  IF st.threw \/ k > Len(pairs) THEN st
  ELSE LET p == pairs[Len(pairs) + 1 - k]
       IN  IF reproduceThrows(st.world, p[1], p[2], r)
           THEN [world |-> reproduce(st.world, p[1], p[2], r), threw |-> TRUE]
           ELSE CHOOSE out \in {matingLoopReversed(now, pairs, k + 1, r) :
                                  now \in {[st EXCEPT !.world = reproduce(st.world, p[1], p[2], r)]}} : TRUE

\* The loop over pendingMating in step (simulation.ts lines 391-393) from pair
\* k on; st.threw tells that reproduce has thrown.
RECURSIVE matingLoop(_, _, _, _)
matingLoop(st, pairs, k, r) ==
  IF st.threw \/ k > Len(pairs) THEN st
  ELSE IF reproduceThrows(st.world, pairs[k][1], pairs[k][2], r)
       THEN [world |-> reproduce(st.world, pairs[k][1], pairs[k][2], r), threw |-> TRUE]
       ELSE CHOOSE out \in {matingLoop(now, pairs, k + 1, r) :
                              now \in {[st EXCEPT !.world = reproduce(st.world, pairs[k][1],
                                                                      pairs[k][2], r)]}} : TRUE

\* the mating block of step (simulation.ts lines 389-395)
Mating ==
  /\ pc = "mating"
  /\ LET st == IF world.pendingMating.defined
               THEN matingLoop([world |-> world, threw |-> FALSE], world.pendingMating.pairs, 1, rng)
               ELSE [world |-> world, threw |-> FALSE]
     IN  /\ world' = IF st.threw THEN st.world
                     ELSE [st.world EXCEPT !.pendingMating = [defined |-> FALSE, pairs |-> <<>>]]
         /\ pc' = IF st.threw THEN "aborted" ELSE nextPhase("mating")
         /\ done' = IF st.threw THEN done ELSE Append(done, "mating")
  /\ issued' = [issued EXCEPT !.creatures = @ \o appended(world.creatures, world'.creatures)]
  /\ log' = [log EXCEPT !.born = Len(world'.creatures) - Len(world.creatures)]
  /\ UNCHANGED <<call, bodies, collisions, rng, calls, before>>

\* the aging loop of step
Aging ==
  /\ pc = "aging"
  /\ world' = ageCreatures(world)
  /\ done' = Append(done, "aging")
  /\ pc' = nextPhase("aging")
  /\ UNCHANGED <<call, bodies, collisions, rng, calls, before, log, issued>>

\* processDivision(world) in step; an exception of createCreature leaves step
Division ==
  /\ pc = "division"
  /\ LET r == processDivision(world, rng)
     IN  /\ world' = r.world
         /\ pc' = IF r.threw THEN "aborted" ELSE nextPhase("division")
         /\ done' = IF r.threw THEN done ELSE Append(done, "division")
  /\ issued' = [issued EXCEPT !.creatures = @ \o appended(world.creatures, world'.creatures)]
  /\ log' = [log EXCEPT !.split = Len(world'.creatures) - Len(world.creatures)]
  /\ UNCHANGED <<call, bodies, collisions, rng, calls, before>>

\* processDeaths(world) in step, after which step returns
Death ==
  /\ pc = "death"
  /\ world' = processDeaths(world, rng)
  /\ issued' = [issued EXCEPT !.food = @ \o appended(world.food, world'.food)]
  /\ log' = [EmptyLog EXCEPT !.born = log.born, !.split = log.split,
                             !.died = Len(world.creatures) - Len(world'.creatures)]
  /\ done' = Append(done, "death")
  /\ pc' = nextPhase("death")
  /\ collisions' = <<>>
  /\ rng' = Quiet
  /\ before' = world'
  /\ UNCHANGED <<call, bodies, calls>>

\* CollisionSystem.clear() (collision.ts lines 24-29), a public method that
\* may be called between two steps: every body is removed
Clear ==
  /\ pc \in {"idle", "aborted"}
  /\ DOMAIN bodies # {}
  /\ bodies' = <<>>
  /\ UNCHANGED <<world, collisions, pc, rng, calls, before, done, log, issued, call>>

Next ==
  \/ SpawnRandomCreature
  \/ SpawnFood
  \/ InitializeWorld
  \/ Tick
  \/ Food
  \/ Solar
  \/ Physics
  \/ Collision
  \/ Interaction
  \/ Mating
  \/ Aging
  \/ Division
  \/ Death
  \/ Clear

Spec == Init /\ [][Next]_vars


\* ------------------------------------------------------ the lone Solar node
\* number of ticks a run of the lone Solar creature takes
MaxSoloTick == 4

\* a creature of one Solar node of size 10
SoloGenome == <<NodeGene("solar", 10 * LS, ES \div 2, <<>>)>>

\* A world of 100 by 100 that holds one creature made by createCreature from
\* SoloGenome, with energy 50 or 140, the solar pool (insolation x 100) being
\* 5 or 0.02 and the division threshold the default 150.
InitSolo ==
  /\ world \in {[createWorld([width |-> 100 * LS, height |-> 100 * LS, insolation |-> insolation])
                   EXCEPT !.creatures = <<createCreature(0, SoloGenome, 0, 0, energy, StillBody)>>,
                          !.nextCreatureId = 1] :
                  insolation \in {(5 * EU) \div 100, (2 * EU) \div 10000},
                  energy \in {50 * EU, 140 * EU}}
  /\ bodies = <<>>
  /\ collisions = <<>>
  /\ pc = "idle"
  /\ rng = Quiet
  /\ calls = [creature |-> 1, food |-> 0]
  /\ before = world
  /\ done = <<>>
  /\ log = EmptyLog
  /\ issued = [creatures |-> <<0>>, food |-> <<>>]
  /\ call = [fn |-> "none"]

\* step is called on the world of the lone creature: world.tick++
SoloTick ==
  /\ pc = "idle"
  /\ world.tick < MaxSoloTick
  /\ world' = [world EXCEPT !.tick = @ + 1]
  /\ rng' \in RngPool
  /\ before' = world
  /\ done' = <<"tick">>
  /\ log' = EmptyLog
  /\ collisions' = <<>>
  /\ pc' = nextPhase("tick")
  /\ UNCHANGED <<call, bodies, calls, issued>>

NextSolo ==
  \/ SoloTick
  \/ Food
  \/ Solar
  \/ Physics
  \/ Collision
  \/ Interaction
  \/ Mating
  \/ Aging
  \/ Division
  \/ Death
  \/ Clear

Solo == InitSolo /\ [][NextSolo]_vars

\* ------------------------------------------------------ a populated world
\* A world of 100 by 100 with the default configuration, filled from outside
\* step by spawnRandomCreature(world, x, y, energy) and spawnFood(world, x, y).
\* Either it holds creature 0 (sucker, solar) with a food particle on its
\* Sucker node, creature 1 with energy 0.005, which starves in the first
\* tick, and creature 2 with energy 160, which divides 10 from the right
\* edge; or it holds two creatures with energy 60 whose Mating nodes overlap
\* 8 from the bottom edge; or it holds two such couples, far from each other
\* and from the edges.
InitLife ==
  /\ world \in
       LET w0 == createWorld([width |-> 100 * LS, height |-> 100 * LS])
           w1 == spawnRandomCreature(w0, Some(0), Some(0), 50 * EU, Busy)
           w2 == spawnRandomCreature(w1, Some(-30 * LS), Some(-30 * LS), EU \div 200, Lossy)
           w3 == spawnRandomCreature(w2, Some(40 * LS), Some(0), 160 * EU, Quiet)
           m1 == spawnRandomCreature(w0, Some(20 * LS), Some(42 * LS), 60 * EU, Quiet)
           m2 == spawnRandomCreature(m1, Some(22 * LS), Some(42 * LS), 60 * EU, Quiet)
           q1 == spawnRandomCreature(w0, Some(-30 * LS), Some(-20 * LS), 60 * EU, Quiet)
           q2 == spawnRandomCreature(q1, Some(-28 * LS), Some(-20 * LS), 60 * EU, Quiet)
           q3 == spawnRandomCreature(q2, Some(10 * LS), Some(20 * LS), 60 * EU, Quiet)
           q4 == spawnRandomCreature(q3, Some(12 * LS), Some(20 * LS), 60 * EU, Quiet)
       IN  {spawnFood(w3, Some(0), Some(0), Quiet), m2, q4}
  /\ bodies = <<>>
  /\ collisions = <<>>
  /\ pc = "idle"
  /\ rng = Quiet
  /\ calls = [creature |-> Len(world.creatures), food |-> Len(world.food)]
  /\ before = world
  /\ done = <<>>
  /\ log = EmptyLog
  /\ issued = [creatures |-> [i \in 1..Len(world.creatures) |-> world.creatures[i].id],
               food |-> [i \in 1..Len(world.food) |-> world.food[i].id]]
  /\ call = [fn |-> "none"]

\* the steps of the populated world, at most MaxSoloTick of them
Life == InitLife /\ [][NextSolo]_vars

\* ------------------------------------------------------- a crowded world
\* the number of calls of step on the crowded world
MaxCrowdTick == 3

\* A world of 100 by 100 with the default configuration, filled from outside
\* step by spawnRandomCreature(world, x, y, energy).  Creatures 0, 1 and 2
\* have two Mating nodes each and stand in a row: the second node of
\* creature 0 overlaps the first of creature 1, the second node of creature
\* 1 overlaps the first of creature 2, so creature 1 has two partners.
\* Creature 0 has energy 160 and divides when it has not mated.  Creature 3
\* (sucker, solar) has actuated links; its Sucker node overlaps creatures 1
\* and 2, creature 4, which has energy 0.3, and the places where the child
\* of creatures 1 and 2 and the child of creature 0 appear.
InitCrowd ==
  /\ world =
       LET w0 == createWorld([width |-> 100 * LS, height |-> 100 * LS])
           w1 == spawnRandomCreature(w0, Some(-1434), Some(-859), 160 * EU, Quiet)
           w2 == spawnRandomCreature(w1, Some(0), Some(0), 60 * EU, Quiet)
           w3 == spawnRandomCreature(w2, Some(1434), Some(859), 60 * EU, Quiet)
           w4 == spawnRandomCreature(w3, Some(1560), Some(215), 50 * EU, Busy)
       IN  spawnRandomCreature(w4, Some(2160), Some(-385), (3 * EU) \div 10, Quiet)
  /\ bodies = <<>>
  /\ collisions = <<>>
  /\ pc = "idle"
  /\ rng = Quiet
  /\ calls = [creature |-> Len(world.creatures), food |-> 0]
  /\ before = world
  /\ done = <<>>
  /\ log = EmptyLog
  /\ issued = [creatures |-> [i \in 1..Len(world.creatures) |-> world.creatures[i].id],
               food |-> <<>>]
  /\ call = [fn |-> "none"]

\* step is called on the crowded world: world.tick++
CrowdTick ==
  /\ pc = "idle"
  /\ world.tick < MaxCrowdTick
  /\ world' = [world EXCEPT !.tick = @ + 1]
  /\ rng' \in RngPool
  /\ before' = world
  /\ done' = <<"tick">>
  /\ log' = EmptyLog
  /\ collisions' = <<>>
  /\ pc' = nextPhase("tick")
  /\ UNCHANGED <<call, bodies, calls, issued>>

NextCrowd ==
  \/ CrowdTick
  \/ Food
  \/ Solar
  \/ Physics
  \/ Collision
  \/ Interaction
  \/ Mating
  \/ Aging
  \/ Division
  \/ Death
  \/ Clear

\* the steps of the crowded world, at most MaxCrowdTick of them
Crowd == InitCrowd /\ [][NextCrowd]_vars


\* --------------------------------------------------- the debug key 'c'
\* the key 'c' is not served once this many creature ids have been issued:
\* those of the fifteen creatures of the start and of two creatures more
MaxIssued == 17

\* The configuration main.ts passes to createWorld (main.ts lines 10-22)
MainConfig ==
  [width |-> 800 * LS, height |-> 600 * LS, viscosity |-> (8 * ES) \div 100,
   insolation |-> (5 * EU) \div 1000, foodSpawnRate |-> (2 * ES) \div 100,
   foodEnergy |-> 15 * EU, matingEnergyCost |-> 80 * EU, matingEnergyThreshold |-> 70 * EU,
   divisionEnergyThreshold |-> 150 * EU, mutationRate |-> (12 * ES) \div 100,
   mutationStrength |-> (25 * ES) \div 100]

\* The configuration of the entry file kept after processCollisions
\* (collision.ts lines 249-261)
FixedIdConfig ==
  [MainConfig EXCEPT !.width = 2400 * LS, !.height = 1800 * LS,
                     !.insolation = (15 * EU) \div 10000]

\* The draws of the i-th call of spawnRandomCreature and of the i-th call of
\* spawnFood that initializeWorld makes at the start: the creatures lie in a
\* row above the centre and the food on a grid below it, a profile each in
\* turn.
StartDraws(i) ==
  [(IF i % 3 = 0 THEN Quiet ELSE IF i % 3 = 1 THEN Lossy ELSE Busy)
     EXCEPT !.x = 100 + 50 * i, !.y = 250,
            !.foodX = 50 + 100 * (i % 10), !.foodY = 600 + 40 * ((i + 9) \div 10)]

\* The entry files before the first frame and the first key (main.ts lines
\* 10-29, collision.ts lines 249-268): createWorld with the configuration of
\* the file and initializeWorld(world, 15, 80) (simulation.ts lines 411-423).
InitDebug ==
  /\ world \in
       {LET RECURSIVE creatures(_, _)
            creatures(w, i) ==
              IF i > 15 THEN w
              ELSE CHOOSE out \in {creatures(now, i + 1) :
                       now \in {spawnRandomCreature(w, None, None, 50 * EU, StartDraws(i))}} : TRUE
            particle(w, i) ==
              spawnFood([w EXCEPT !.nextFoodId = @ + i - 1], None, None, StartDraws(i)).food
            foods(w) ==
              [w EXCEPT !.nextFoodId = @ + 80,
                        !.food = @ \o [i \in 1..80 |-> particle(w, i)[Len(particle(w, i))]]]
        IN  foods(CHOOSE w \in {creatures(createWorld(c), 1)} : TRUE) :
              c \in {MainConfig, FixedIdConfig}}
  /\ bodies = <<>>
  /\ collisions = <<>>
  /\ pc = "idle"
  /\ rng = Quiet
  /\ calls = [creature |-> 0, food |-> 0]
  /\ before = world
  /\ done = <<>>
  /\ log = EmptyLog
  /\ issued = [creatures |-> [i \in 1..Len(world.creatures) |-> world.creatures[i].id],
               food |-> [i \in 1..Len(world.food) |-> world.food[i].id]]
  /\ call = [fn |-> "none"]

\* The keydown handler of main.ts for 'c' (main.ts lines 80-112), run between
\* two steps: a triangle of three Neutral nodes of size 5 and side 40 with
\* energy 100 is pushed with the id world.nextCreatureId++, and the rest
\* length of its third link is set to 1.5 sides.  The handler is also served
\* after a step that threw.  Of the two timers it starts, SquareWave below
\* rewrites that rest length; the other one only logs.
KeyC ==
  /\ pc \in {"idle", "aborted"}
  /\ world.config = MainConfig
  /\ Len(issued.creatures) < MaxIssued
  /\ LET s == 40 * LS
         h == Div(s * Sqrt(3 * LS * LS), 2 * LS)
         gene == NodeGene("neutral", 5 * LS, ES \div 2, <<>>)
         nodes == <<Node(0, gene, 0, -Div(h * 2, 3)),
                    Node(1, gene, -Div(s, 2), Div(h, 3)),
                    Node(2, gene, Div(s, 2), Div(h, 3))>>
         links == <<Link(0, 1, s, ES \div 2, 0, 0, 0),
                    Link(0, 2, s, ES \div 2, 0, 0, 0),
                    Link(1, 2, Div(s * 15, 10), ES \div 2, 0, 0, 0)>>
         creature == [id |-> world.nextCreatureId, nodes |-> nodes, links |-> links,
                      genome |-> <<gene, gene, gene>>, energy |-> 100 * EU, age |-> 0,
                      alive |-> TRUE]
     IN  world' = [world EXCEPT !.nextCreatureId = @ + 1, !.creatures = Append(@, creature)]
  /\ issued' = [issued EXCEPT !.creatures = @ \o appended(world.creatures, world'.creatures)]
  /\ UNCHANGED <<call, bodies, collisions, pc, rng, calls, before, done, log>>

\* The keydown handler for 'c' in the text after processCollisions
\* (collision.ts lines 319-358 and 411-414), run between two steps: a fish
\* of three Neutral nodes of sizes 12, 4 and 4 with energy 100 is pushed with
\* the id 99, world.nextCreatureId is raised to 100 if it was lower, and the
\* rest lengths of the three links are set to 180.  The handler is also
\* served after a step that threw.  The swim cycle it starts is swimCycle
\* below; its other timer only logs.
KeyCFixedId ==
  /\ pc \in {"idle", "aborted"}
  /\ world.config = FixedIdConfig
  /\ Len(issued.creatures) < MaxIssued
  /\ LET legLength == 60 * LS
         halfAngle == Div(45 * 314, 180)
         tailX == Div(legLength * Cos(halfAngle), ES)
         tailY == Div(legLength * Sin(halfAngle), ES)
         head == NodeGene("neutral", 12 * LS, ES \div 2, <<>>)
         tail == NodeGene("neutral", 4 * LS, ES \div 2, <<>>)
         nodes == <<Node(0, head, 0, 0), Node(1, tail, tailX, -tailY), Node(2, tail, tailX, tailY)>>
         links == <<Link(0, 1, 180 * LS, ES \div 2, 0, 0, 0),
                    Link(0, 2, 180 * LS, ES \div 2, 0, 0, 0),
                    Link(1, 2, 180 * LS, ES \div 2, 0, 0, 0)>>
         creature == [id |-> 99, nodes |-> nodes, links |-> links,
                      genome |-> <<head, tail, tail>>, energy |-> 100 * EU, age |-> 0,
                      alive |-> TRUE]
     IN  world' = [world EXCEPT !.nextCreatureId = Max(@, 100), !.creatures = Append(@, creature)]
  /\ issued' = [issued EXCEPT !.creatures = @ \o appended(world.creatures, world'.creatures)]
  /\ UNCHANGED <<call, bodies, collisions, pc, rng, calls, before, done, log>>

\* The callback of setInterval in the handler of main.ts (lines 120-124),
\* fired between two steps for a triangle the handler pushed: expanded is
\* negated and the rest length of the third link becomes 1.5 sides if
\* expanded, else 0.75 sides.  The link objects of the pushed creatures are
\* the only ones with stiffness 0.5, and of those the triangle has a first
\* node of size 5; expanded holds iff the rest length is 1.5 sides, as the two
\* are only written together.  A firing for a creature that has left
\* world.creatures changes nothing of the world.
SquareWave ==
  /\ pc \in {"idle", "aborted"}
  /\ \E i \in 1..Len(world.creatures) :
        /\ Len(world.creatures[i].links) = 3
        /\ world.creatures[i].links[3].stiffness = ES \div 2
        /\ world.creatures[i].genome[1].size = 5 * LS
        /\ world' = [world EXCEPT !.creatures[i].links[3].restLength =
                                    IF @ = 60 * LS THEN 30 * LS ELSE 60 * LS]
  /\ UNCHANGED <<call, bodies, collisions, pc, rng, calls, before, done, log, issued>>

\* One phase of swimCycle and its nested timeouts (collision.ts lines
\* 377-414), fired between two steps for a fish the handler pushed (first
\* node of size 12): close the tail (25), shorten the legs (30), open the
\* tail (180) with the legs at 90, lengthen the legs (180), and again.  The
\* rest lengths of the legs and of the tail tell the phase that comes next.
swimCycle ==
  /\ pc \in {"idle", "aborted"}
  /\ \E i \in 1..Len(world.creatures) :
        /\ Len(world.creatures[i].links) = 3
        /\ world.creatures[i].links[3].stiffness = ES \div 2
        /\ world.creatures[i].genome[1].size = 12 * LS
        /\ LET legs == world.creatures[i].links[1].restLength
               tail == world.creatures[i].links[3].restLength
           IN  world' =
                 IF legs = 180 * LS /\ tail = 180 * LS
                 THEN [world EXCEPT !.creatures[i].links[3].restLength = 25 * LS]
                 ELSE IF legs = 180 * LS
                 THEN [world EXCEPT !.creatures[i].links[1].restLength = 30 * LS,
                                    !.creatures[i].links[2].restLength = 30 * LS]
                 ELSE IF legs = 30 * LS
                 THEN [world EXCEPT !.creatures[i].links[3].restLength = 180 * LS,
                                    !.creatures[i].links[1].restLength = 90 * LS,
                                    !.creatures[i].links[2].restLength = 90 * LS]
                 ELSE [world EXCEPT !.creatures[i].links[1].restLength = 180 * LS,
                                    !.creatures[i].links[2].restLength = 180 * LS]
  /\ UNCHANGED <<call, bodies, collisions, pc, rng, calls, before, done, log, issued>>

\* the key 'f' is not served once this many food ids have been issued:
\* those of the eighty particles of the start and of ten more
MaxKeyFood == 90

\* The keydown handler of main.ts for 'f' (lines 72-79), run between two
\* steps: spawnFood(world) is called ten times.  The draws for x of the ten
\* calls are 0.05, 0.15, ..., 0.95; the draw for y is that of Quiet.
KeyF ==
  /\ pc \in {"idle", "aborted"}
  /\ Len(issued.food) + 10 <= MaxKeyFood
  /\ \E r \in {Quiet} :
        LET RECURSIVE spawned(_, _)
            spawned(w, i) ==
              IF i > 10 THEN w
              ELSE spawned(spawnFood(w, None, None, [r EXCEPT !.foodX = 100 * i - 50]), i + 1)
        IN  world' = spawned(world, 1)
  /\ issued' = [issued EXCEPT !.food = @ \o appended(world.food, world'.food)]
  /\ UNCHANGED <<call, bodies, collisions, pc, rng, calls, before, done, log>>

\* the new world with the keyboard attached: key presses, timers and steps
NextDebug ==
  \/ KeyC
  \/ KeyF
  \/ KeyCFixedId
  \/ SquareWave
  \/ swimCycle
  \/ Clear
  \/ Tick
  \/ Food
  \/ Solar
  \/ Physics
  \/ Collision
  \/ Interaction
  \/ Mating
  \/ Aging
  \/ Division
  \/ Death

Debug == InitDebug /\ [][NextDebug]_vars


\* ------------------------------------------------- calls of single functions
\* The functions are also called on their own, on arguments drawn from the
\* pools below.  A run of Calls makes one such call; `call' holds it.

\* the longest genome passed to a function called on its own
MaxGenes == 3

\* genes with no link, a forward link, offsets beyond the genome length in
\* both directions, and the offset 0
GenePool ==
  {NodeGene("solar", 10 * LS, ES \div 2, <<>>),
   NodeGene("solar", 5 * LS, (3 * ES) \div 10, <<-3>>),
   NodeGene("sucker", 5 * LS, (4 * ES) \div 10, <<1>>),
   NodeGene("mating", 5 * LS, ES \div 2, <<-1, 5>>),
   NodeGene("neutral", 3 * LS, ES \div 2, <<0, -7, 2>>)}

\* the genomes of at most MaxGenes genes, the empty genome included
GenomePool == UNION {[1..n -> GenePool] : n \in 0..MaxGenes}

\* creatureToFood(world, creature) on a world without food and a creature
\* that is not in it, which dies with energy zero, just below or far below zero
CallCreatureToFood ==
  /\ call.fn = "none"
  /\ \E genome \in GenomePool \ {<<>>}, energy \in {0, -(EU \div 100), -(50 * EU)}, r \in RngPool :
        LET creature == createCreature(0, genome, 0, 0, energy, StillBody)
        IN  call' = [fn |-> "creatureToFood", creature |-> creature,
                     result |-> creatureToFood(createWorld(<<>>), creature, r)]
  /\ UNCHANGED <<world, bodies, collisions, pc, rng, calls, before, done, log, issued>>

\* applySolarEnergy(world) on a world of one or two creatures, living or
\* dead, with the default insolation 0.05 or with 0.0002
CallApplySolarEnergy ==
  /\ call.fn = "none"
  /\ \E ga, gb \in {g \in GenomePool : Len(g) <= 2}, la, lb \in BOOLEAN,
        insolation \in {(5 * EU) \div 100, (2 * EU) \div 10000} :
        LET a == [createCreature(0, ga, 0, 0, 50 * EU, StillBody) EXCEPT !.alive = la]
            b == [createCreature(1, gb, 40 * LS, 0, 20 * EU, StillBody) EXCEPT !.alive = lb]
            w == [createWorld([insolation |-> insolation]) EXCEPT
                    !.creatures = (IF Len(ga) > 0 THEN <<a>> ELSE <<>>) \o (IF Len(gb) > 0 THEN <<b>> ELSE <<>>),
                    !.nextCreatureId = 2]
        IN  call' = [fn |-> "applySolarEnergy", world |-> w, result |-> applySolarEnergy(w)]
  /\ UNCHANGED <<world, bodies, collisions, pc, rng, calls, before, done, log, issued>>

\* createCreature(id, genome, x, y, startingEnergy); call.threw tells that it
\* threw, and call.result is then empty
CallCreateCreature ==
  /\ call.fn = "none"
  /\ \E genome \in GenomePool, energy \in {0, 50 * EU}, cd \in {StillBody, ActiveBody} :
        call' = [fn |-> "createCreature", genome |-> genome, energy |-> energy,
                 threw |-> createCreatureThrows(genome),
                 result |-> IF createCreatureThrows(genome) THEN <<>>
                            ELSE createCreature(7, genome, 10 * LS, -5 * LS, energy, cd)]
  /\ UNCHANGED <<world, bodies, collisions, pc, rng, calls, before, done, log, issued>>

\* crossover(genomeA, genomeB) on two genomes of one or two genes; each of
\* its draws is the smallest, the middle or the largest value of Math.random()
CallCrossover ==
  /\ call.fn = "none"
  /\ \E genomeA, genomeB \in {g \in GenomePool : Len(g) \in 1..2},
        rA, rB, coin \in {0, ES \div 2, ES - 1} :
        call' = [fn |-> "crossover", genomeA |-> genomeA, genomeB |-> genomeB,
                 rA |-> rA, rB |-> rB, coin |-> coin,
                 result |-> crossover(genomeA, genomeB, rA, rB, coin)]
  /\ UNCHANGED <<world, bodies, collisions, pc, rng, calls, before, done, log, issued>>

\* mutate(genome, rate, strength) with rate 0, 0.1 or 1, strength 0.3 or 1
\* and the draws of one of the profiles
CallMutate ==
  /\ call.fn = "none"
  /\ \E genome \in GenomePool, rate \in {0, ES \div 10, ES}, strength \in {(3 * ES) \div 10, ES},
        r \in RngPool :
        call' = [fn |-> "mutate", genome |-> genome, rate |-> rate, strength |-> strength,
                 draws |-> r.mutation, result |-> mutate(genome, rate, strength, r.mutation)]
  /\ UNCHANGED <<world, bodies, collisions, pc, rng, calls, before, done, log, issued>>

\* applySelfCollision(creature) on a creature of two nodes, the first at the
\* origin and the second on it, inside it, overlapping it or clear of it
CallApplySelfCollision ==
  /\ call.fn = "none"
  /\ \E genome \in {g \in GenomePool : Len(g) = 2},
        at \in {<<0, 0>>, <<3 * LS, 0>>, <<3 * LS, 4 * LS>>, <<-7 * LS, LS>>,
                <<0, -12 * LS>>, <<20 * LS, 0>>} :
        LET made == createCreature(0, genome, 0, 0, 50 * EU, StillBody)
            creature == [made EXCEPT !.nodes[1].x = 0, !.nodes[1].y = 0,
                                     !.nodes[2].x = at[1], !.nodes[2].y = at[2]]
        IN  call' = [fn |-> "applySelfCollision", creature |-> creature,
                     result |-> applySelfCollision(creature)]
  /\ UNCHANGED <<world, bodies, collisions, pc, rng, calls, before, done, log, issued>>

\* the most records in a genome text
MaxRecords == 2

\* The genome texts of at most MaxRecords records out of
\*   (sucker,5,0.8,+1)   (neutral,3,0.5,-1,+1)   (solar,5.27,0.123,2)
\*   (mating)   (solar,big,x,1.7,foo,-2)   (sucker,0.04,0)   ()   (plant,-3,1.5)
TextPool ==
  LET W(text) == Part(FALSE, text, 0, FALSE)
      N(v) == Part(TRUE, "", v, FALSE)
      P(v) == Part(TRUE, "", v, TRUE)
      records == {<<W("sucker"), N(5000), N(800), P(1000)>>,
                  <<W("neutral"), N(3000), N(500), N(-1000), P(1000)>>,
                  <<W("solar"), N(5270), N(123), N(2000)>>,
                  <<W("mating")>>,
                  <<W("solar"), W("big"), W("x"), N(1700), W("foo"), N(-2000)>>,
                  <<W("sucker"), N(40), N(0)>>,
                  <<>>,
                  <<W("plant"), N(-3000), N(1500)>>}
  IN  UNION {[1..n -> records] : n \in 0..MaxRecords}

\* parseGenome(x), serializeGenome of the genome it returns, and parseGenome
\* of that text
CallParseGenome ==
  /\ call.fn = "none"
  /\ \E x \in TextPool :
        call' = [fn |-> "parseGenome", text |-> x, genome |-> parseGenome(x),
                 printed |-> serializeGenome(parseGenome(x)),
                 again |-> parseGenome(serializeGenome(parseGenome(x)))]
  /\ UNCHANGED <<world, bodies, collisions, pc, rng, calls, before, done, log, issued>>

\* updateCreaturePhysics(creature, world, 1) on a creature of one or two
\* nodes, living or dead, moved as a whole to the middle of the world,
\* beyond one edge or beyond a corner, at rest or moving; the world
\* is 100 by 100 or 30 by 16, which is lower than the largest node.
\* call.pre is the creature as integrate leaves it.
CallUpdateCreaturePhysics ==
  /\ call.fn = "none"
  /\ \E genome \in {g \in GenomePool : Len(g) \in 1..2}, alive \in BOOLEAN,
        size \in {<<100 * LS, 100 * LS>>, <<30 * LS, 16 * LS>>},
        x \in {0, 48 * LS, -49 * LS}, y \in {0, 6 * LS, -47 * LS}, vx \in {0, 3 * LS, -3 * LS} :
        LET w == createWorld([width |-> size[1], height |-> size[2]])
            made == createCreature(0, genome, 0, 0, 50 * EU, StillBody)
            creature == [made EXCEPT !.alive = alive,
                           !.nodes = [i \in 1..Len(made.nodes) |->
                                        [made.nodes[i] EXCEPT !.x = @ + x, !.y = @ + y,
                                                              !.vx = vx, !.vy = -vx]]]
            pre == IF ~alive THEN creature
                   ELSE integrate(
                          applyNodeDrags(
                            applyLinkDrags(applySelfCollision(applyLinkForces(creature, w.tick)),
                                           w.config.viscosity),
                            w.config.viscosity),
                          1)
        IN  call' = [fn |-> "updateCreaturePhysics", creature |-> creature, config |-> w.config,
                     pre |-> pre,
                     result |-> updateCreaturePhysics(creature, w.config, w.tick, 1)]
  /\ UNCHANGED <<world, bodies, collisions, pc, rng, calls, before, done, log, issued>>

\* processCollisions(world, pairs) on two living creatures of one node each
\* that overlap, with the pair list the collision system reports for them;
\* the nodes are of every type, the Suckers of efficiency 0.4 and 1, and the
\* energies are 50, 0.1, 0 and -0.1
CallProcessCollisions ==
  /\ call.fn = "none"
  /\ \E ga, gb \in GenePool \cup {NodeGene("sucker", 5 * LS, ES, <<>>)},
        ea, eb \in {50 * EU, EU \div 10, 0, -(EU \div 10)} :
        LET w == [createWorld(<<>>) EXCEPT
                    !.creatures = <<createCreature(0, <<ga>>, 0, 0, ea, StillBody),
                                    createCreature(1, <<gb>>, 4 * LS, LS, eb, StillBody)>>,
                    !.nextCreatureId = 2]
        IN  \E pairs \in getCollisions(sync(<<>>, w.creatures, w.food)) :
               call' = [fn |-> "processCollisions", world |-> w, pairs |-> pairs,
                        result |-> processCollisions(w.creatures, w.food, w.config, pairs)]
  /\ UNCHANGED <<world, bodies, collisions, pc, rng, calls, before, done, log, issued>>

NextCalls ==
  \/ CallUpdateCreaturePhysics
  \/ CallProcessCollisions
  \/ CallCreatureToFood
  \/ CallApplySolarEnergy
  \/ CallCreateCreature
  \/ CallCrossover
  \/ CallMutate
  \/ CallApplySelfCollision
  \/ CallParseGenome

Calls == Init /\ [][NextCalls]_vars


\* -------------------------------------------------------------- properties
\* the elements of a sequence are pairwise different
Distinct(seq) == \A i, j \in 1..Len(seq) : i # j => seq[i] # seq[j]

\* the type of the node a collision body stands for
nodeTypeOf(creatures, data) ==
  LET c == findById(creatures, data.creatureId)
      n == findById(creatures[c].nodes, data.nodeId)
  IN  creatures[c].nodes[n].gene.type

\* the pair is one of nodes of two different creatures
betweenCreatures(pair) ==
  pair.a.type = "node" /\ pair.b.type = "node" /\ pair.a.creatureId # pair.b.creatureId

\* the pair is one of two Mating nodes of two different creatures
matingContact(creatures, pair) ==
  /\ betweenCreatures(pair)
  /\ nodeTypeOf(creatures, pair.a) = "mating"
  /\ nodeTypeOf(creatures, pair.b) = "mating"

\* C1: no creature id and no food id is issued twice, also not the id of a
\* creature or particle that was removed since, every issued id is below its
\* counter, and nextCreatureId and nextFoodId never decrease.
C1_IdsUnique ==
  /\ [](/\ Distinct(issued.creatures)
        /\ Distinct(issued.food)
        /\ \A i \in 1..Len(issued.creatures) : issued.creatures[i] < world.nextCreatureId
        /\ \A i \in 1..Len(issued.food) : issued.food[i] < world.nextFoodId)
  /\ [][/\ world'.nextCreatureId >= world.nextCreatureId
        /\ world'.nextFoodId >= world.nextFoodId]_vars

\* C1 witness: after a step in which a creature died and became food, a
\* creature was spawned; three creature ids and two food ids were issued
C1_Witness ==
  /\ pc = "idle"
  /\ world.tick = 1
  /\ log.died > 0
  /\ Len(issued.creatures) >= 3
  /\ Len(issued.creatures) > Len(world.creatures)
  /\ Len(issued.food) >= 2

\* C2: the phases of a step run in the order tick, food, solar, physics,
\* collision, interaction, mating, aging, division, death; and when the
\* interaction phase starts, the collision bodies hold the positions the
\* physics phase of this step has left and the pairs reported are those of
\* these bodies.
C2_PhaseOrder ==
  LET order == <<"tick", "food", "solar", "physics", "collision", "interaction",
                 "mating", "aging", "division", "death">>
  IN  /\ Len(done) <= Len(order)
      /\ \A i \in 1..Len(done) : done[i] = order[i]
      /\ pc \notin {"idle", "aborted"} => Len(done) < Len(order) /\ pc = order[Len(done) + 1]
      /\ pc = "interaction" =>
            /\ collisions \in getCollisions(bodies)
            /\ \A i \in 1..Len(world.creatures) : \A j \in 1..Len(world.creatures[i].nodes) :
                  LET node == world.creatures[i].nodes[j]
                      key == nodeKey(world.creatures[i].id, node.id)
                  IN  key \in DOMAIN bodies /\ bodies[key].x = node.x /\ bodies[key].y = node.y

\* C2 witness: the interaction phase is about to run on pairs detected after
\* the physics phase has moved a node
C2_Witness ==
  /\ pc = "interaction"
  /\ Len(collisions) > 0
  /\ \E i \in 1..Len(world.creatures) : \E j \in 1..Len(world.creatures[i].nodes) :
        \/ world.creatures[i].nodes[j].x # before.creatures[i].nodes[j].x
        \/ world.creatures[i].nodes[j].y # before.creatures[i].nodes[j].y

\* C3: a call of step runs all its phases or leaves the world as it was: in
\* a state where step has stopped part-way the world is the one step was
\* called on.
C3_StepAtomic == pc = "aborted" => world = before

\* C4: createCreature is not called with an empty genome during step,
\* neither by reproduce in the mating phase nor by processDivision.
C4_NoEmptyGenome ==
  /\ pc = "mating" =>
        ~matingLoop([world |-> world, threw |-> FALSE], world.pendingMating.pairs, 1, rng).threw
  /\ pc = "division" => ~processDivision(world, rng).threw

\* the positions in w.creatures of the living creatures whose energy has
\* reached the division threshold, in list order
dividing(w) ==
  SelectSeq([i \in 1..Len(w.creatures) |-> i],
            LAMBDA i : /\ w.creatures[i].alive
                       /\ w.creatures[i].energy >= w.config.divisionEnergyThreshold)

\* the positions in w.creatures of the creatures with energy at or below zero
starved(w) == {i \in 1..Len(w.creatures) : w.creatures[i].energy <= 0}

\* both creatures of the pair p of positions meet the mating threshold in w
bothQualify(w, p) ==
  /\ w.creatures[p[1]].energy >= w.config.matingEnergyThreshold
  /\ w.creatures[p[2]].energy >= w.config.matingEnergyThreshold

\* C5: when the death phase ends and step returns, every creature of
\* world.creatures is alive with energy above zero, no creature whose energy
\* was at or below zero is left in the list, and at least one food particle
\* was added for each of them.
C5_DeadRemoved ==
  [][pc = "death" /\ pc' = "idle" =>
       /\ \A j \in 1..Len(world'.creatures) :
             world'.creatures[j].alive /\ world'.creatures[j].energy > 0
       /\ \A i \in starved(world) : \A j \in 1..Len(world'.creatures) :
             world'.creatures[j].id # world.creatures[i].id
       /\ Len(world'.food) >= Len(world.food) + Cardinality(starved(world))
       /\ Len(world'.creatures) = Len(world.creatures) - Cardinality(starved(world))]_vars

\* C5 witness: step has returned after a tick in which one creature died and
\* became food while another one lives on
C5_Witness ==
  /\ pc = "idle"
  /\ Len(done) = 10
  /\ log.died > 0
  /\ Len(world.creatures) > 0
  /\ Len(world.food) > 0

\* C6: in the list of mating pairs that processCollisions leaves, a pair
\* holds two different creatures and no creature is in two pairs; the mating
\* phase adds at most one child per pair.
C6_MatesOnce ==
  /\ pc = "mating" =>
        LET pairs == world.pendingMating.pairs
        IN  /\ \A k \in 1..Len(pairs) : pairs[k][1] # pairs[k][2]
            /\ \A k, l \in 1..Len(pairs) :
                  k # l => {pairs[k][1], pairs[k][2]} \cap {pairs[l][1], pairs[l][2]} = {}
  /\ pc = "aging" => log.born <= Len(log.queued)

\* C6 witness: one pair was queued, and the collision system also reported
\* an overlap of Mating nodes of one creature of that pair with a third
\* creature, both at or above the threshold: a creature had two partners
C6_Witness ==
  /\ pc = "mating"
  /\ Len(world.pendingMating.pairs) = 1
  /\ \E i \in 1..Len(collisions) :
        /\ matingContact(world.creatures, collisions[i])
        /\ LET ids == {collisions[i].a.creatureId, collisions[i].b.creatureId}
               queued == {world.creatures[world.pendingMating.pairs[1][k]].id : k \in 1..2}
           IN  /\ Cardinality(ids \cap queued) = 1
               /\ \A id \in ids :
                     world.creatures[findById(world.creatures, id)].energy
                        >= world.config.matingEnergyThreshold

\* C7: when several Sucker nodes overlap one food particle in a tick, only
\* the first pair processed credits energy: no food particle is eaten twice
\* in one pass of processCollisions.
C7_FirstConsumerWins ==
  \A i, j \in 1..Len(log.eaten) : i # j => log.eaten[i].food # log.eaten[j].food

\* C8: every collision pair of nodes of two different living creatures gets
\* the separation impulse, whatever the node types and the outcome of the
\* drain and mating checks.
C8_AlwaysSeparated ==
  pc = "mating" =>
     \A i \in 1..Len(collisions) : betweenCreatures(collisions[i]) => i \in log.pushed

\* C9 as stated: every pair that was queued (two living creatures with
\* energy at or above matingEnergyThreshold when their overlapping Mating
\* nodes were examined, neither paired yet) gets exactly one child with
\* energy matingEnergyThreshold, and each parent pays matingEnergyCost / 2.
C9_QueuedPairsBreed ==
  [][pc = "mating" /\ pc' = "aging" =>
       LET pairs == world.pendingMating.pairs
           n == Len(world.creatures)
           half == Div(world.config.matingEnergyCost, 2)
       IN  /\ Len(world'.creatures) = n + Len(pairs)
           /\ \A k \in 1..Len(pairs) :
                 /\ world'.creatures[n + k].energy = world.config.matingEnergyThreshold
                 /\ world'.creatures[pairs[k][1]].energy = world.creatures[pairs[k][1]].energy - half
                 /\ world'.creatures[pairs[k][2]].energy = world.creatures[pairs[k][2]].energy - half]_vars

\* C9 amended: every queued pair whose two creatures still have energy at or
\* above matingEnergyThreshold when the mating phase runs gets exactly one
\* child with energy matingEnergyThreshold and each of its parents pays
\* matingEnergyCost / 2; a queued pair that no longer qualifies gets no child
\* and pays nothing.
C9_QualifiedPairsBreed ==
  [][pc = "mating" /\ pc' = "aging" =>
       LET bred == SelectSeq(world.pendingMating.pairs, LAMBDA p : bothQualify(world, p))
           parents == UNION {{bred[k][1], bred[k][2]} : k \in 1..Len(bred)}
           n == Len(world.creatures)
           half == Div(world.config.matingEnergyCost, 2)
       IN  /\ Len(world'.creatures) = n + Len(bred)
           /\ \A k \in 1..Len(bred) :
                 world'.creatures[n + k].energy = world.config.matingEnergyThreshold
           /\ \A i \in 1..n :
                 world'.creatures[i].energy =
                    world.creatures[i].energy - (IF i \in parents THEN half ELSE 0)]_vars

\* C9 witness: several pairs of Mating nodes of the same two creatures
\* overlapped, one pair was queued, and the mating phase added one child
C9_Witness ==
  /\ pc = "aging"
  /\ Len(log.queued) = 1
  /\ log.born = 1
  /\ Cardinality({i \in 1..Len(collisions) : matingContact(world.creatures, collisions[i])}) >= 2
  /\ world.creatures[Len(world.creatures)].energy = world.config.matingEnergyThreshold

\* C10: the division phase leaves every living creature whose energy E has
\* reached divisionEnergyThreshold with 0.4 E and adds exactly one child with
\* 0.4 E for it, whatever mutate returns for the child genome.
C10_DivisionSplits ==
  [][pc = "division" =>
       LET ps == dividing(world)
           n == Len(world.creatures)
       IN  /\ Len(world'.creatures) = n + Len(ps)
           /\ \A k \in 1..Len(ps) :
                 /\ world'.creatures[ps[k]].energy = Div(world.creatures[ps[k]].energy * 4, 10)
                 /\ world'.creatures[n + k].energy = Div(world.creatures[ps[k]].energy * 4, 10)]_vars

RECURSIVE SumEnergy(_, _)
\* the sum of the energies of the elements i.. of a list
SumEnergy(list, i) == IF i > Len(list) THEN 0 ELSE list[i].energy + SumEnergy(list, i + 1)

\* C11: creatureToFood adds max(1, floor(m / 50)) particles of equal energy
\* whose energies sum to e + 0.1 m (up to one rounding unit per particle),
\* for a creature of mass m that dies with energy e <= 0.
C11_DeathConserves ==
  call.fn = "creatureToFood" =>
     LET m == SumMass(call.creature.nodes, 1)
         food == call.result.food
         due == call.creature.energy + MulDiv(EU, m, 10 * LS * LS)
     IN  /\ Len(food) = Max(1, massDiv50(call.creature.nodes))
         /\ \A i \in 1..Len(food) : food[i].energy = food[1].energy
         /\ SumEnergy(food, 1) <= due
         /\ SumEnergy(food, 1) > due - Len(food)

\* creature i of the running step has had no income so far: no solar share,
\* no food eaten, nothing credited from a drain
unfed(i) ==
  /\ i \notin log.sunned
  /\ i \notin log.credited
  /\ \A k \in 1..Len(log.eaten) : log.eaten[k].creature # i

\* C12: a creature that is in the world when step is called and when it
\* returns, and that had no solar income, ate no food and was credited
\* nothing from a drain in this tick, has lost at least the maintenance cost
\* 0.01 over the step.
C12_UnfedLoses ==
  [][pc = "death" /\ pc' = "idle" =>
       \A j \in 1..Len(world'.creatures) :
          LET i == findById(before.creatures, world'.creatures[j].id)
          IN  i # 0 /\ unfed(i) =>
                 world'.creatures[j].energy <= before.creatures[i].energy - EU \div 100]_vars

\* C12 witness: the last phase of a step is about to run; a creature that was
\* there at the start had no income, was drained by a Sucker of another
\* creature and survives
C12_Witness ==
  /\ pc = "death"
  /\ log.credited # {}
  /\ \E i \in 1..Len(before.creatures) :
        /\ unfed(i)
        /\ world.creatures[i].energy > 0
        /\ world.creatures[i].energy < before.creatures[i].energy - EU \div 100

\* the Solar nodes of a creature
solarNodes(creature) == {j \in 1..Len(creature.nodes) : creature.nodes[j].gene.type = "solar"}

RECURSIVE SumOver(_, _, _)
\* the sum of f[i] for i from lo to hi
SumOver(f, lo, hi) == IF lo > hi THEN 0 ELSE f[lo] + SumOver(f, lo + 1, hi)

\* C13: applySolarEnergy adds insolation x 100 in total when a living creature
\* has a Solar node (up to one rounding unit per Solar node), each living
\* creature getting the part of it that the size^2 of its Solar nodes is of
\* the size^2 of all living Solar nodes; dead creatures and creatures without
\* Solar nodes get nothing, and without a living Solar node nothing changes.
C13_SolarPool ==
  call.fn = "applySolarEnergy" =>
     LET w == call.world
         r == call.result
         n == Len(w.creatures)
         pool == w.config.insolation * 100
         lit == [i \in 1..n |-> IF w.creatures[i].alive THEN solarNodes(w.creatures[i]) ELSE {}]
         area == [i \in 1..n |-> SumOver([j \in 1..Len(w.creatures[i].nodes) |->
                                            IF j \in lit[i] THEN massOf(w.creatures[i].nodes[j]) ELSE 0],
                                         1, Len(w.creatures[i].nodes))]
         count == [i \in 1..n |-> Cardinality(lit[i])]
         gain == [i \in 1..n |-> r.creatures[i].energy - w.creatures[i].energy]
         totalArea == SumOver(area, 1, n)
     IN  /\ Len(r.creatures) = n
         /\ [r EXCEPT !.creatures = w.creatures] = w
         /\ \A i \in 1..n : [r.creatures[i] EXCEPT !.energy = w.creatures[i].energy] = w.creatures[i]
         /\ totalArea = 0 => r = w
         /\ totalArea > 0 =>
               /\ SumOver(gain, 1, n) <= pool
               /\ SumOver(gain, 1, n) > pool - SumOver(count, 1, n)
               /\ \A i \in 1..n :
                     /\ gain[i] * totalArea <= pool * area[i]
                     /\ gain[i] * totalArea > pool * area[i] - totalArea * Max(1, count[i])

\* C13 witness: applySolarEnergy has run on two living creatures with Solar
\* nodes of different total size^2 and on a world where the only Solar nodes
\* belong to a dead creature
C13_Witness ==
  /\ call.fn = "applySolarEnergy"
  /\ Len(call.world.creatures) = 2
  /\ \A i \in 1..2 : call.world.creatures[i].alive /\ Cardinality(solarNodes(call.world.creatures[i])) = i
  /\ call.result.creatures[1].energy > call.world.creatures[1].energy
  /\ call.result.creatures[2].energy - call.world.creatures[2].energy
        # call.result.creatures[1].energy - call.world.creatures[1].energy

\* step was called on a world whose only creature has the one Solar node of
\* size 10, positive energy, and a solar pool above the maintenance cost
soloStep ==
  /\ Len(before.creatures) = 1
  /\ before.creatures[1].genome = SoloGenome
  /\ before.creatures[1].energy > 0
  /\ before.config.insolation * 100 > EU \div 100

\* C14 as stated: every step that the lone Solar creature starts leaves it
\* with more energy than it had when the step was called.
C14_SoloAlwaysGains ==
  [][pc = "death" /\ pc' = "idle" /\ soloStep =>
       \E j \in 1..Len(world'.creatures) :
          /\ world'.creatures[j].id = before.creatures[1].id
          /\ world'.creatures[j].energy > before.creatures[1].energy]_vars

\* C14 amended: every step that the lone Solar creature starts with an energy
\* that stays below divisionEnergyThreshold after the solar income and the
\* maintenance cost of the tick leaves it alone and with more energy than it
\* had when the step was called.
C14_SoloGainsBelowThreshold ==
  [][/\ pc = "death" /\ pc' = "idle" /\ soloStep
     /\ before.creatures[1].energy + before.config.insolation * 100 - EU \div 100
           < before.config.divisionEnergyThreshold
     => /\ Len(world'.creatures) = 1
        /\ world'.creatures[1].id = before.creatures[1].id
        /\ world'.creatures[1].energy > before.creatures[1].energy]_vars

\* C14 witness: the second step or a later one of the lone Solar creature is
\* about to return, and the creature, still alone and below the threshold,
\* has more energy than at the end of the step before
C14_Witness ==
  /\ pc = "death"
  /\ world.tick >= 2
  /\ soloStep
  /\ Len(world.creatures) = 1
  /\ world.creatures[1].energy < world.config.divisionEnergyThreshold
  /\ world.creatures[1].energy > before.creatures[1].energy

\* a gene of the genome has a link offset that leaves the genome
reachesOutside(genome) ==
  \E i \in 1..Len(genome) : \E k \in 1..Len(genome[i].links) :
     (i - 1) + genome[i].links[k] \notin 0..(Len(genome) - 1)

\* C15: createCreature throws exactly for the empty genome; for any other
\* genome it returns a living creature of age 0 with the given energy and one
\* node per gene, in gene order.
C15_CreateCreatureTotal ==
  call.fn = "createCreature" =>
     /\ call.threw <=> Len(call.genome) = 0
     /\ ~call.threw =>
           /\ Len(call.result.nodes) = Len(call.genome)
           /\ \A i \in 1..Len(call.genome) :
                 call.result.nodes[i].id = i - 1 /\ call.result.nodes[i].gene = call.genome[i]
           /\ call.result.alive
           /\ call.result.age = 0
           /\ call.result.energy = call.energy

\* C15 witness: createCreature has returned a creature for a genome of three
\* genes with a gene without links and link offsets that leave the genome
C15_Witness ==
  /\ call.fn = "createCreature"
  /\ ~call.threw
  /\ Len(call.genome) = 3
  /\ reachesOutside(call.genome)
  /\ \E i \in 1..3 : call.genome[i].links = <<>>
  /\ Len(call.result.nodes) = 3

\* C16: every link of a creature made by createCreature joins two different
\* nodes of the creature, no two links join the same two nodes, and every
\* offset of every gene is resolved modulo the genome length: the node it
\* names is in range and, unless it is the gene's own node, linked to it.
C16_LinksWellFormed ==
  call.fn = "createCreature" /\ ~call.threw =>
     LET n == Len(call.genome)
         links == call.result.links
     IN  /\ \A l \in 1..Len(links) :
               /\ links[l].nodeA # links[l].nodeB
               /\ links[l].nodeA \in 0..(n - 1)
               /\ links[l].nodeB \in 0..(n - 1)
         /\ \A l, m \in 1..Len(links) :
               l # m => {links[l].nodeA, links[l].nodeB} # {links[m].nodeA, links[m].nodeB}
         /\ \A i \in 0..(n - 1) : \A k \in 1..Len(call.genome[i + 1].links) :
               LET t == (i + call.genome[i + 1].links[k]) % n
               IN  /\ resolveLink(i, call.genome[i + 1].links[k], n) = t
                   /\ t # i => \E l \in 1..Len(links) : {links[l].nodeA, links[l].nodeB} = {i, t}

\* C16 witness: createCreature has built links from offsets that leave the
\* genome in both directions, and has dropped an offset that names a pair of
\* nodes already linked
C16_Witness ==
  /\ call.fn = "createCreature"
  /\ ~call.threw
  /\ \E i \in 1..Len(call.genome) : \E k \in 1..Len(call.genome[i].links) :
        (i - 1) + call.genome[i].links[k] < 0
  /\ \E i \in 1..Len(call.genome) : \E k \in 1..Len(call.genome[i].links) :
        (i - 1) + call.genome[i].links[k] >= Len(call.genome)
  /\ Len(call.result.links) >= 2
  /\ \E a, b \in 1..Len(call.genome) :
        /\ a < b
        /\ \E k \in 1..Len(call.genome[a].links) : (a - 1 + call.genome[a].links[k]) % Len(call.genome) = b - 1
        /\ \E k \in 1..Len(call.genome[b].links) : (b - 1 + call.genome[b].links[k]) % Len(call.genome) = a - 1

\* C17: crossover of two non-empty genomes returns a non-empty genome, made
\* of a head of A followed by a tail of B or, when both are empty, a whole
\* parent.
C17_CrossoverNonEmpty ==
  call.fn = "crossover" =>
     /\ Len(call.result) >= 1
     /\ \/ call.result \in {call.genomeA, call.genomeB}
        \/ \E cutA \in 0..Len(call.genomeA), cutB \in 0..Len(call.genomeB) :
              call.result = SubSeq(call.genomeA, 1, cutA)
                               \o SubSeq(call.genomeB, cutB + 1, Len(call.genomeB))

\* C17 witness: crossover has run with cutA = 0 and cutB = the length of B,
\* and the fallback coin has chosen B
C17_Witness ==
  /\ call.fn = "crossover"
  /\ call.rA = 0
  /\ call.rB = ES - 1
  /\ call.genomeA # call.genomeB
  /\ call.result = (IF call.coin < ES \div 2 THEN call.genomeA ELSE call.genomeB)
  /\ call.coin = ES - 1

\* C18: mutate with rate 0 returns the genome it was given, gene by gene,
\* whatever the strength and the draws.
C18_RateZeroKeeps ==
  call.fn = "mutate" /\ call.rate = 0 =>
     /\ Len(call.result) = Len(call.genome)
     /\ \A i \in 1..Len(call.genome) : call.result[i] = call.genome[i]

\* the absolute value
Dist(a, b) == IF a >= b THEN a - b ELSE b - a

\* C19: after applySelfCollision has processed two nodes of a creature that
\* were closer than the sum of their sizes, the two coincident nodes
\* included, their distance is at least that sum less a tolerance, node A has
\* moved by overlap x m_B / (m_A + m_B) and node B by overlap x m_A / (m_A +
\* m_B), and the mass-weighted centre of the two is where it was.  The
\* tolerance, five times the smallest length, covers the rounding of the
\* fixed-point arithmetic.
C19_SelfCollisionSeparates ==
  call.fn = "applySelfCollision" =>
     LET a == call.creature.nodes[1]
         b == call.creature.nodes[2]
         a2 == call.result.nodes[1]
         b2 == call.result.nodes[2]
         minDist == a.gene.size + b.gene.size
         dist == Hypot(b.x - a.x, b.y - a.y)
         overlap == minDist - dist
         mA == massOf(a)
         mB == massOf(b)
         eps == 5 * Epsilon
     IN  dist < minDist =>
            /\ Hypot(b2.x - a2.x, b2.y - a2.y) >= minDist - eps
            /\ Dist(Hypot(a2.x - a.x, a2.y - a.y), Div(overlap * mB, mA + mB)) <= eps
            /\ Dist(Hypot(b2.x - b.x, b2.y - b.y), Div(overlap * mA, mA + mB)) <= eps
            /\ Dist(mA * a2.x + mB * b2.x, mA * a.x + mB * b.x) <= eps * (mA + mB)
            /\ Dist(mA * a2.y + mB * b2.y, mA * a.y + mB * b.y) <= eps * (mA + mB)

\* C20: parsing a genome text, serializing the genome and parsing the result
\* gives the genome of the first parse: the same genes in the same order,
\* with the same types, sizes, efficiencies and link offsets.
C20_RoundTrip ==
  call.fn = "parseGenome" =>
     /\ Len(call.again) = Len(call.genome)
     /\ \A i \in 1..Len(call.genome) : call.again[i] = call.genome[i]


\* the node lies inside the rectangle of the configuration
insideWorld(node, config) ==
  /\ -Div(config.width, 2) + node.gene.size <= node.x
  /\ node.x <= Div(config.width, 2) - node.gene.size
  /\ -Div(config.height, 2) + node.gene.size <= node.y
  /\ node.y <= Div(config.height, 2) - node.gene.size

\* what the boundary phase did to a node: it is inside the rectangle, and on
\* each side that the node violated after integration its position is the
\* bound and its velocity changed by 0.5 towards the inside
boundaryHandled(p, q, config) ==
  LET hw == Div(config.width, 2)
      hh == Div(config.height, 2)
      r == p.gene.size
      left == p.x - r < -hw
      right == p.x + r > hw
      top == p.y - r < -hh
      bottom == p.y + r > hh
  IN  /\ insideWorld(q, config)
      /\ left => q.x = -hw + r /\ q.vx = p.vx + LS \div 2
      /\ right => q.x = hw - r /\ q.vx = p.vx - LS \div 2
      /\ top => q.y = -hh + r /\ q.vy = p.vy + LS \div 2
      /\ bottom => q.y = hh - r /\ q.vy = p.vy - LS \div 2
      /\ ~(left \/ right) => q.x = p.x /\ q.vx = p.vx
      /\ ~(top \/ bottom) => q.y = p.y /\ q.vy = p.vy

\* the node is not larger than the world
fits(node, config) == 2 * node.gene.size <= config.width /\ 2 * node.gene.size <= config.height

\* C21 as stated: after the boundary phase of updateCreaturePhysics every node
\* of a living creature is inside the rectangle, whatever the node size and
\* the world size, and each violated side was clamped and pushed back by 0.5
C21_BoundaryAnySize ==
  (call.fn = "updateCreaturePhysics" /\ call.creature.alive) =>
    \A i \in 1..Len(call.result.nodes) :
       boundaryHandled(call.pre.nodes[i], call.result.nodes[i], call.config)

\* C21 amended: the same for every node whose diameter is at most the width
\* and the height of the world
C21_BoundaryKeepsInside ==
  (call.fn = "updateCreaturePhysics" /\ call.creature.alive) =>
    \A i \in 1..Len(call.result.nodes) :
       fits(call.result.nodes[i], call.config) =>
         boundaryHandled(call.pre.nodes[i], call.result.nodes[i], call.config)

\* a living creature had a node beyond the right and the top edge of a world
\* it fits in, and updateCreaturePhysics returned
C21_Witness ==
  /\ call.fn = "updateCreaturePhysics"
  /\ call.creature.alive
  /\ \E i \in 1..Len(call.pre.nodes) :
        /\ fits(call.pre.nodes[i], call.config)
        /\ call.pre.nodes[i].x + call.pre.nodes[i].gene.size > Div(call.config.width, 2)
        /\ call.pre.nodes[i].y - call.pre.nodes[i].gene.size < -Div(call.config.height, 2)
        /\ call.result.nodes[i] # call.pre.nodes[i]


\* the amount a node drains from a creature of energy e: min(e, efficiency x 0.5)
\* for a Sucker node, nothing for a node of another type
drained(node, e) ==
  IF node.gene.type = "sucker" THEN Min(e, Div(node.gene.efficiency * EU, 2 * ES)) ELSE 0

\* C22: for a collision pair between node A of creature X and node B of
\* another living creature Y, Y loses d = min(Y.energy, efficiency_A x 0.5) and
\* X gains d / 2 if A is a Sucker; then X loses d2 = min(X.energy,
\* efficiency_B x 0.5) and Y gains d2 / 2 if B is a Sucker, d2 taken on the
\* energies after the first transfer; without a Sucker no energy moves
C22_DrainAmounts ==
  call.fn = "processCollisions" =>
    \A k \in 1..Len(call.pairs) :
       LET pair == call.pairs[k]
           X == findById(call.world.creatures, pair.a.creatureId)
           Y == findById(call.world.creatures, pair.b.creatureId)
           A == call.world.creatures[X].nodes[pair.a.nodeId + 1]
           B == call.world.creatures[Y].nodes[pair.b.nodeId + 1]
           d == drained(A, call.world.creatures[Y].energy)
           x1 == call.world.creatures[X].energy + Div(d, 2)
           y1 == call.world.creatures[Y].energy - d
           d2 == drained(B, x1)
       IN  /\ call.result.creatures[X].energy = x1 - d2
           /\ call.result.creatures[Y].energy = y1 + Div(d2, 2)
           /\ (A.gene.type # "sucker" /\ B.gene.type # "sucker") =>
                 /\ call.result.creatures[X].energy = call.world.creatures[X].energy
                 /\ call.result.creatures[Y].energy = call.world.creatures[Y].energy

\* two Sucker nodes of different efficiency met, and the second drain took
\* all the first one had just credited
C22_Witness ==
  /\ call.fn = "processCollisions"
  /\ Len(call.pairs) = 1
  /\ LET pair == call.pairs[1]
         X == findById(call.world.creatures, pair.a.creatureId)
         Y == findById(call.world.creatures, pair.b.creatureId)
         A == call.world.creatures[X].nodes[pair.a.nodeId + 1]
         B == call.world.creatures[Y].nodes[pair.b.nodeId + 1]
     IN  /\ A.gene.type = "sucker" /\ B.gene.type = "sucker"
         /\ A.gene.efficiency < B.gene.efficiency
         /\ call.world.creatures[X].energy = EU \div 10
         /\ call.world.creatures[Y].energy = 50 * EU
         /\ call.result.creatures[X].energy = 0
         /\ call.result.creatures[Y].energy = 50 * EU - (EU \div 5) + (EU \div 10)


\* C23: when a queued mating pair is attempted while a parent is below
\* matingEnergyThreshold, reproduce adds no child, takes no energy from
\* either parent and no creature id: the parents of such a pair keep their
\* energy, and when no queued pair qualifies the mating phase leaves the
\* creature list and the id counter as they were
C23_PoorPairRefused ==
  [][pc = "mating" =>
       LET pairs == world.pendingMating.pairs
           poor == {k \in 1..Len(pairs) : ~bothQualify(world, pairs[k])}
       IN  /\ \A k \in poor : \A i \in {pairs[k][1], pairs[k][2]} :
                 world'.creatures[i] = world.creatures[i]
           /\ poor = 1..Len(pairs) =>
                 /\ world'.creatures = world.creatures
                 /\ world'.nextCreatureId = world.nextCreatureId]_vars

\* a pair was queued, a drain then took a parent below the threshold, and
\* the mating phase ran and added no child
C23_Witness ==
  /\ pc = "aging"
  /\ Len(log.queued) = 1
  /\ log.born = 0
  /\ log.credited # {}
  /\ world.nextCreatureId = Len(issued.creatures)
  /\ \E i \in {log.queued[1][1], log.queued[1][2]} :
        /\ world.creatures[i].energy < world.config.matingEnergyThreshold
        /\ world.creatures[i].energy < before.creatures[i].energy


\* C24: a gene that mutate appends as a duplicate is a copy of one single
\* gene of the input genome (type, size, efficiency and link offsets all of
\* that gene), at most one gene is appended per call, and none for an empty
\* input genome
C24_DuplicateIsCopy ==
  call.fn = "mutate" =>
    LET kept == Cardinality({i \in 1..Len(call.genome) :
                               keepGene(call.rate, geneDraws(call.draws, i))})
        n == Len(call.result)
    IN  /\ n <= kept + 1
        /\ call.genome = <<>> => call.result = <<>>
        /\ n = kept + 1 => \E i \in 1..Len(call.genome) : call.result[n] = call.genome[i]


\* C25: sexual reproduction is a net energy loss: the parents together pay at
\* least what the child receives, so the mating phase never raises the
\* summed energy of the creatures, under every configuration of createWorld
\* and the default one in particular
C25_MatingNetLoss ==
  [][pc = "mating" =>
       /\ SumEnergy(world'.creatures, 1) <= SumEnergy(world.creatures, 1)
       /\ (Len(world'.creatures) > Len(world.creatures) =>
             world.config.matingEnergyCost >= world.config.matingEnergyThreshold)]_vars


\* the positions in world.creatures of the living creatures
living(w) == {i \in 1..Len(w.creatures) : w.creatures[i].alive}

\* C26: after every call of sync, over steps with births, deaths, food
\* spawning and food consumption, the bodies correspond one-to-one to the
\* nodes of the living creatures plus the food particles: each has exactly one
\* body at its current position with its current radius, and no body is left
\* for a removed creature or a consumed particle
C26_BodiesMatchWorld ==
  pc = "interaction" =>
    /\ \A i \in living(world) : \A j \in 1..Len(world.creatures[i].nodes) :
          LET node == world.creatures[i].nodes[j]
              key == nodeKey(world.creatures[i].id, node.id)
          IN  /\ key \in DOMAIN bodies
              /\ bodies[key] = [x |-> node.x, y |-> node.y, r |-> node.gene.size,
                                userData |-> nodeData(world.creatures[i].id, node.id),
                                pos |-> bodies[key].pos]
    /\ \A i \in 1..Len(world.food) :
          LET f == world.food[i]
          IN  /\ foodKey(f.id) \in DOMAIN bodies
              /\ bodies[foodKey(f.id)] = [x |-> f.x, y |-> f.y, r |-> f.radius,
                                          userData |-> foodData(f.id),
                                          pos |-> bodies[foodKey(f.id)].pos]
    /\ Cardinality(DOMAIN bodies) =
          SumOver([i \in 1..Len(world.creatures) |->
                     IF world.creatures[i].alive THEN Len(world.creatures[i].nodes) ELSE 0],
                  1, Len(world.creatures))
          + Len(world.food)

\* sync ran in a later tick, after creature 1 had died and its particles were
\* added, food particle 0 had been eaten and creatures had been born
C26_Witness ==
  /\ pc = "interaction"
  /\ world.tick >= 2
  /\ findById(world.creatures, 1) = 0
  /\ findById(world.food, 0) = 0
  /\ Len(issued.food) > 1
  /\ \E i \in 1..Len(world.creatures) : world.creatures[i].id >= 3
  /\ \E i \in 1..Len(world.food) : world.food[i].id >= 1
  /\ nodeKey(1, 0) \notin DOMAIN bodies
  /\ foodKey(0) \notin DOMAIN bodies


\* the drain of creature vic by the node of creature att takes an amount
\* between 0 and the energy of vic and credits att with no more than it took
drainSafe(creatures, att, vic, node) ==
  LET after == drain(creatures, att, vic, node)
  IN  /\ after[vic].energy >= 0
      /\ after[vic].energy <= creatures[vic].energy
      /\ after[att].energy >= creatures[att].energy
      /\ after[att].energy + after[vic].energy <= creatures[att].energy + creatures[vic].energy

\* the creature list after the first k pairs of processCollisions
afterPairs(k) ==
  processCollisions(world.creatures, world.food, world.config, SubSeq(collisions, 1, k)).creatures

\* C27: for creatures created by the engine, the actuation cost never takes a
\* positive energy to zero or below, every creature has energy >= 0 at every
\* point of processCollisions, and every drain takes an amount d with
\* 0 <= d <= victim energy, so it leaves the victim at or above zero and does
\* not raise the summed energy of the two creatures
C27_EnergyNonNegative ==
  /\ [][pc = "physics" =>
          \A i \in 1..Len(world.creatures) :
             world.creatures[i].energy > 0 => world'.creatures[i].energy > 0]_vars
  /\ [](pc = "interaction" =>
          \A k \in 0..Len(collisions) :
             /\ \A i \in 1..Len(world.creatures) : afterPairs(k)[i].energy >= 0
             /\ (k < Len(collisions) /\ betweenCreatures(collisions[k + 1])) =>
                   LET cs == afterPairs(k)
                       a == findById(cs, collisions[k + 1].a.creatureId)
                       b == findById(cs, collisions[k + 1].b.creatureId)
                       nodeA == cs[a].nodes[collisions[k + 1].a.nodeId + 1]
                       nodeB == cs[b].nodes[collisions[k + 1].b.nodeId + 1]
                   IN  /\ drainSafe(cs, a, b, nodeA)
                       /\ drainSafe(drain(cs, a, b, nodeA), b, a, nodeB))

\* C27 witness: processCollisions has run in the second tick of the crowded
\* world.  Creature 5, made by reproduce, and creature 6, made by
\* processDivision, both in the first tick, were drained by a Sucker, and
\* creature 4, which survived processDeaths, was drained of all the energy
\* it had, less than efficiency x 0.5, leaving it at zero
C27_Witness ==
  /\ pc = "mating"
  /\ world.tick = 2
  /\ log.credited # {}
  /\ \A id \in {4, 5, 6} :
        /\ findById(world.creatures, id) # 0
        /\ findById(before.creatures, id) # 0
        /\ world.creatures[findById(world.creatures, id)].energy
              < before.creatures[findById(before.creatures, id)].energy
  /\ world.creatures[findById(world.creatures, 4)].energy = 0
  /\ before.creatures[findById(before.creatures, 4)].energy > 0
  /\ before.creatures[findById(before.creatures, 5)].age = 1
  /\ before.creatures[findById(before.creatures, 6)].age = 0


\* C28: when step returns, every node of every creature of the world lies
\* inside the configured rectangle, the nodes of the creatures born in that
\* tick by mating or by division included
C28_InsideAfterStep ==
  (pc = "idle" /\ Len(done) > 0) =>
    \A i \in 1..Len(world.creatures) : \A j \in 1..Len(world.creatures[i].nodes) :
       insideWorld(world.creatures[i].nodes[j], world.config)


\* C29: the creature injection of key 'c' keeps the creature ids unique: after
\* any injections interleaved with steps and engine births no two creatures
\* of world.creatures share an id, the id of an injected creature was never
\* issued to another creature, and after sync every living node has a
\* collision body of its own
C29_InjectionKeepsIdsUnique ==
  /\ Distinct([i \in 1..Len(world.creatures) |-> world.creatures[i].id])
  /\ Distinct(issued.creatures)
  /\ pc = "interaction" =>
        Cardinality({k \in DOMAIN bodies : k.kind = "c"}) =
           SumOver([i \in 1..Len(world.creatures) |->
                      IF world.creatures[i].alive THEN Len(world.creatures[i].nodes) ELSE 0],
                   1, Len(world.creatures))


\* the world after one call of reproduce for each pair from the k-th on, in
\* the order of the list
RECURSIVE attemptedInOrder(_, _, _, _)
attemptedInOrder(w, pairs, k, r) ==
  IF k > Len(pairs) THEN w
  ELSE attemptedInOrder(reproduce(w, pairs[k][1], pairs[k][2], r), pairs, k + 1, r)

\* C30: every mating pair queued by processCollisions in a tick is attempted
\* by reproduce exactly once, in that tick and in queue order, after the whole
\* pair list has been processed (processCollisions itself adds no creature),
\* and no queued pair is left when step returns
C30_QueueDrained ==
  /\ [][pc = "interaction" =>
          /\ Len(world'.creatures) = Len(world.creatures)
          /\ world'.nextCreatureId = world.nextCreatureId]_vars
  /\ [][pc = "mating" =>
          /\ world.pendingMating.defined
          /\ world.pendingMating.pairs = log.queued
          /\ world' = [attemptedInOrder(world, log.queued, 1, rng) EXCEPT
                         !.pendingMating = [defined |-> FALSE, pairs |-> <<>>]]]_vars
  /\ [](pc = "idle" => (~world.pendingMating.defined /\ world.pendingMating.pairs = <<>>))

\* two pairs were queued in one tick and each got its child, the child of the
\* first pair first, next to its parents; step has returned with no pair left
C30_Witness ==
  /\ pc = "idle"
  /\ world.tick = 1
  /\ log.born = 2
  /\ ~world.pendingMating.defined
  /\ Len(world.creatures) = 6
  /\ world.creatures[5].id = 4
  /\ world.creatures[6].id = 5
  /\ world.creatures[5].energy < world.config.matingEnergyThreshold
  /\ \E i \in 1..4 :
        /\ world.creatures[i].energy < before.config.matingEnergyThreshold
        /\ Dist(world.creatures[5].nodes[1].x, world.creatures[i].nodes[1].x) < 20 * LS
        /\ Dist(world.creatures[6].nodes[1].x, world.creatures[i].nodes[1].x) > 20 * LS

=============================================================================
